---- MODULE Spec2Model ----
(***************************************************************************)
(* stac-task: payload configuration resolution (stactask/payload.py),      *)
(* collection resolution (stactask/utils.py) and the task handler          *)
(* (stactask/task.py).                                                     *)
(*                                                                         *)
(* JSON documents are tagged values [t, k, v]:                             *)
(*   dict : k = the keys in insertion order, v = the values, aligned       *)
(*   list : v = the elements                                               *)
(*   str  : v = <<the string>>      int : v = <<the number>>               *)
(*   none : Python's None                                                  *)
(* An operation's outcome is a record [exc, msg, arg, val]: the value it   *)
(* returns (exc = "none") or the exception it raises (class, message,      *)
(* the name the message quotes).                                           *)
(***************************************************************************)
EXTENDS Integers, Sequences, FiniteSets, TLC

VARIABLES
    payload,            \* the payload document (Task.payload)
    task_name,          \* the task class's name
    collection_config,  \* find_collection's configuration argument
    item,               \* find_collection's record argument
    collection_name,    \* get_collection_upload_options' argument
    output,             \* the records process returned
    items,              \* handler's list of post-processed records
    pc,                 \* where the call is
    ret,                \* what the call returned or raised
    kwargs,             \* the task class and the arguments of its constructor
    task,               \* the fields of the Task object
    workdir_exists,     \* whether the working directory exists on disk
    calls,              \* how often process, cleanup_workdir, the logger's
                        \* warning and the storage client have been called
    registry,           \* _REGISTRY.tasks: the class registered under each name
    lock,               \* Registry.lock: the thread that holds it, 0 if free
    threads,            \* where each thread of the registry's callers is
    sem,                \* asset_io.sem: the permits left
    downloads           \* where each download_file coroutine is

taskvars == <<kwargs, task, workdir_exists, calls>>

sharedvars == <<registry, lock, threads, sem, downloads>>

vars == <<payload, task_name, collection_config, item, collection_name,
          output, items, pc, ret, taskvars, sharedvars>>

\* No registry and no download is part of the run
SharedUnused ==
    /\ registry = <<>>
    /\ lock = 0
    /\ threads = <<>>
    /\ sem = 0
    /\ downloads = <<>>

----------------------------------------------------------------------------
(* Bounds of the model *)

MaxMatchers == 2

MaxTaskConfigs == 2

MaxItems == 2

\* The largest number of times one item is written to the same URL
MaxUploads == 3

\* The number of threads that call the registry, the largest number of calls
\* each of them makes, and the largest number of calls of a thread alone
MaxThreads == 2

MaxThreadOps == 2

MaxOps == 3

\* The number of items download_items_assets is given, and of assets of each
MaxDownloadItems == 2

MaxAssets == 3

----------------------------------------------------------------------------
(* JSON values *)

Dict(keys, vals) == [t |-> "dict", k |-> keys, v |-> vals]

List(vals) == [t |-> "list", k |-> <<>>, v |-> vals]

Str(s) == [t |-> "str", k |-> <<>>, v |-> <<s>>]

Num(n) == [t |-> "int", k |-> <<>>, v |-> <<n>>]

None == [t |-> "none", k |-> <<>>, v |-> <<>>]

EmptyDict == Dict(<<>>, <<>>)

EmptyList == List(<<>>)

IsDict(x) == x.t = "dict"

IsList(x) == x.t = "list"

\* Python truth value: bool(x)
Truthy(x) ==
    CASE x.t = "dict" -> Len(x.k) > 0
      [] x.t = "list" -> Len(x.v) > 0
      [] x.t = "str"  -> x.v[1] # ""
      [] x.t = "int"  -> x.v[1] # 0
      [] OTHER        -> FALSE

HasKey(d, key) == \E i \in 1..Len(d.k) : d.k[i] = key

KeyIndex(d, key) == CHOOSE i \in 1..Len(d.k) : d.k[i] = key

\* d.get(key, default)
DictGet(d, key, default) ==
    IF HasKey(d, key) THEN d.v[KeyIndex(d, key)] ELSE default

\* d[key] = val : an existing key keeps its position, a new key is appended
DictSet(d, key, val) ==
    IF HasKey(d, key)
    THEN [d EXCEPT !.v[KeyIndex(d, key)] = val]
    ELSE Dict(Append(d.k, key), Append(d.v, val))

\* Python dict equality: the same keys with the same values, in any order
DictEq(a, b) ==
    /\ IsDict(a) /\ IsDict(b)
    /\ {a.k[i] : i \in 1..Len(a.k)} = {b.k[i] : i \in 1..Len(b.k)}
    /\ \A i \in 1..Len(a.k) : a.v[i] = DictGet(b, a.k[i], None)

----------------------------------------------------------------------------
(* Outcomes *)

Ok(v) == [exc |-> "none", msg |-> "", arg |-> "", val |-> v]

Raise(e, m, a) == [exc |-> e, msg |-> m, arg |-> a, val |-> None]

Raised(r) == r.exc # "none"

NoResult == [exc |-> "unset", msg |-> "", arg |-> "", val |-> None]

\* Mutant of FirstRaised: the last outcome that is an exception
LastRaised(rs) ==
    LET bad == {i \in 1..Len(rs) : Raised(rs[i])}
    IN  IF bad = {} THEN Ok(None)
        ELSE rs[CHOOSE i \in bad : \A j \in bad : i >= j]

\* The first outcome of rs (in order) that is an exception, if any
FirstRaised(rs) ==
    LET bad == {i \in 1..Len(rs) : Raised(rs[i])}
    IN  IF bad = {} THEN Ok(None)
        ELSE rs[CHOOSE i \in bad : \A j \in bad : i <= j]

----------------------------------------------------------------------------
(* Payload (stactask/payload.py) *)

\* Mutant of process_definition: a bare dictionary is refused
process_definition_list_only(p) ==
    LET process == DictGet(p, "process", EmptyList)
    IN  IF ~IsList(process)
        THEN Raise("TypeError", "unable to parse 'process': must be type list", "")
        ELSE IF Len(process.v) = 0 THEN Ok(EmptyDict)
        ELSE IF ~IsDict(process.v[1])
        THEN Raise("TypeError",
                   "unable to parse 'process': the first element of the list must be type dict",
                   "")
        ELSE Ok(process.v[1])

\* Payload.process_definition
process_definition(p) ==
    LET process == DictGet(p, "process", EmptyList)
    IN  IF IsDict(process) THEN Ok(process)
        ELSE IF ~IsList(process)
        THEN Raise("TypeError", "unable to parse 'process': must be type list", "")
        ELSE IF Len(process.v) = 0 THEN Ok(EmptyDict)
        ELSE IF ~IsDict(process.v[1])
        THEN Raise("TypeError",
                   "unable to parse 'process': the first element of the list must be type dict",
                   "")
        ELSE Ok(process.v[1])

\* Payload.workflow_options
workflow_options(p) ==
    LET pd == process_definition(p)
    IN  IF Raised(pd) THEN pd
        ELSE LET wo == DictGet(pd.val, "workflow_options", EmptyDict)
             IN  IF ~IsDict(wo)
                 THEN Raise("TypeError",
                            "unable to parse 'workflow_options': must be type dict", "")
                 ELSE Ok(wo)

\* Mutant of TaskConfigLoop: the loop returns after the first configuration
TaskConfigLoopFirstOnly(cfgs, i, options) ==
    IF Len(cfgs) = 0 THEN Ok(options)
    ELSE LET prm == DictGet(cfgs[1], "parameters", EmptyDict)
         IN  Ok(DictSet(options, DictGet(cfgs[1], "name", None).v[1], prm))

\* Mutant of TaskConfigLoop: a name that is already set keeps its first
\* parameters (options.setdefault(name, parameters))
RECURSIVE TaskConfigLoopFirstWins(_, _, _)
TaskConfigLoopFirstWins(cfgs, i, options) ==
    IF i > Len(cfgs) THEN Ok(options)
    ELSE LET name == DictGet(cfgs[i], "name", None).v[1]
             prm  == DictGet(cfgs[i], "parameters", EmptyDict)
         IN  TaskConfigLoopFirstWins(
                 cfgs, i + 1,
                 IF HasKey(options, name) THEN options ELSE DictSet(options, name, prm))

\* The loop of Payload.task_options_dict over the deprecated list of task
\* configurations: cfgs[i..] are still to be read, options is the dict so far.
RECURSIVE TaskConfigLoop(_, _, _)
TaskConfigLoop(cfgs, i, options) ==
    IF i > Len(cfgs) THEN Ok(options)
    ELSE LET cfg == cfgs[i]
         IN  IF ~HasKey(cfg, "name") THEN Raise("KeyError", "name", "")
             ELSE LET name == DictGet(cfg, "name", None)
                      prm  == DictGet(cfg, "parameters", EmptyDict)
                  IN  IF ~IsDict(prm)
                      THEN Raise("TypeError",
                                 "unable to parse 'parameters' for task: must be type dict",
                                 name.v[1])
                      ELSE TaskConfigLoop(cfgs, i + 1, DictSet(options, name.v[1], prm))

\* Payload.task_options_dict
task_options_dict(p) ==
    LET pd == process_definition(p)
    IN  IF Raised(pd) THEN pd
        ELSE LET tasks == DictGet(pd.val, "tasks", EmptyDict)
             IN  IF ~(IsDict(tasks) \/ IsList(tasks))
                 THEN Raise("TypeError",
                            "unable to parse 'tasks': must be type dict or type list (deprecated)",
                            "")
                 ELSE IF IsList(tasks) THEN TaskConfigLoop(tasks.v, 1, EmptyDict)
                 ELSE LET bad == {i \in 1..Len(tasks.k) : ~IsDict(tasks.v[i])}
                      IN  IF bad # {}
                          THEN Raise("TypeError",
                                     "unable to parse options for task: must be type dict",
                                     tasks.k[CHOOSE i \in bad : \A j \in bad : i <= j])
                          ELSE Ok(tasks)

\* Payload.items_as_dicts
items_as_dicts(p) ==
    LET features == DictGet(p, "features", EmptyList)
    IN  IF IsList(features) THEN Ok(features)
        ELSE Raise("TypeError", "unable to parse 'features': must be type list", "")

\* Payload.global_upload_options
global_upload_options(p) ==
    LET pd == process_definition(p)
    IN  IF Raised(pd) THEN pd
        ELSE LET uo == DictGet(pd.val, "upload_options", EmptyDict)
             IN  IF IsDict(uo) THEN Ok(uo)
                 ELSE Raise("TypeError",
                            "unable to parse 'upload_options': must be type dict", "")

\* Payload.collection_mapping
collection_mapping(p) ==
    LET uo == global_upload_options(p)
    IN  IF Raised(uo) THEN uo
        ELSE LET cm == DictGet(uo.val, "collections", EmptyDict)
             IN  IF IsDict(cm) THEN Ok(cm)
                 ELSE Raise("TypeError",
                            "unable to parse 'collections': must be type dict", "")

\* Payload.collection_matchers
collection_matchers(p) ==
    LET pd == process_definition(p)
    IN  IF Raised(pd) THEN pd
        ELSE LET ms == DictGet(pd.val, "collection_matchers", EmptyList)
             IN  IF ~IsList(ms)
                 THEN Raise("TypeError",
                            "unable to parse 'collection_matchers': must be type list", "")
                 ELSE IF \E i \in 1..Len(ms.v) : ~IsDict(ms.v[i])
                 THEN Raise("TypeError",
                            "unable to parse 'collection_matchers': each matcher must be type dict",
                            "")
                 ELSE Ok(ms)

\* Payload.collection_options
collection_options(p) ==
    LET pd == process_definition(p)
    IN  IF Raised(pd) THEN pd
        ELSE LET co == DictGet(pd.val, "collection_options", EmptyDict)
             IN  IF ~IsDict(co)
                 THEN Raise("TypeError",
                            "unable to parse 'collection_options': must be type dict", "")
                 ELSE Ok(co)

\* Payload.get_collection_options
get_collection_options(p, name) ==
    LET co == collection_options(p)
    IN  IF Raised(co) THEN co
        ELSE LET options == DictGet(co.val, name, EmptyDict)
             IN  IF ~IsDict(options)
                 THEN Raise("TypeError",
                            "unable to parse 'collection_options' for collection: must be type dict",
                            name)
                 ELSE Ok(options)

\* Mutant of get_collection_upload_options: the collection's own options are
\* not looked at
get_collection_upload_options_global_only(p, name) ==
    LET options == global_upload_options(p)
    IN  IF Raised(options) THEN options
        ELSE IF ~Truthy(options.val)
        THEN Raise("ValueError", "No upload options found for collection", name)
        ELSE options

\* Mutant of get_collection_upload_options: no fallback to the global options
get_collection_upload_options_no_fallback(p, name) ==
    LET co == get_collection_options(p, name)
    IN  IF Raised(co) THEN co
        ELSE LET own == DictGet(co.val, "upload_options", EmptyDict)
             IN  IF ~Truthy(own)
                 THEN Raise("ValueError", "No upload options found for collection", name)
                 ELSE Ok(own)

\* Payload.get_collection_upload_options
get_collection_upload_options(p, name) ==
    LET co == get_collection_options(p, name)
    IN  IF Raised(co) THEN co
        ELSE LET own == DictGet(co.val, "upload_options", EmptyDict)
                 options == IF Truthy(own) THEN Ok(own) ELSE global_upload_options(p)
             IN  IF Raised(options) THEN options
                 ELSE IF ~Truthy(options.val)
                 THEN Raise("ValueError", "No upload options found for collection", name)
                 ELSE options

\* Mutant of MatcherOptionsLoop: only the first matcher's collection is checked
MatcherOptionsLoopFirstOnly(p, matchers, i) ==
    IF Len(matchers) = 0 THEN Ok(None)
    ELSE LET r == get_collection_upload_options(
                      p, DictGet(matchers[1], "collection_name", None).v[1])
         IN  IF Raised(r) THEN r ELSE Ok(None)

\* The last loop of Payload.validate: every matcher's collection must have
\* upload options.
RECURSIVE MatcherOptionsLoop(_, _, _)
MatcherOptionsLoop(p, matchers, i) ==
    IF i > Len(matchers) THEN Ok(None)
    ELSE IF ~HasKey(matchers[i], "collection_name")
    THEN Raise("KeyError", "collection_name", "")
    ELSE LET cn == DictGet(matchers[i], "collection_name", None)
             r  == get_collection_upload_options(p, cn.v[1])
         IN  IF Raised(r) THEN r ELSE MatcherOptionsLoop(p, matchers, i + 1)

\* Mutant of validate: the two collection configurations may both be given
validate_without_exclusion(p) ==
    LET shape == FirstRaised(<< process_definition(p), workflow_options(p),
                                task_options_dict(p), global_upload_options(p),
                                collection_mapping(p), items_as_dicts(p),
                                collection_matchers(p), collection_options(p) >>)
    IN  IF Raised(shape) THEN shape
        ELSE LET mapping  == collection_mapping(p).val
                 matchers == collection_matchers(p).val
             IN  IF ~Truthy(matchers) /\ ~Truthy(mapping)
                 THEN Raise("ValueError",
                            "'collection_matchers' or the legacy 'upload_options.collections' must be provided",
                            "")
                 ELSE MatcherOptionsLoop(p, matchers.v, 1)

\* Payload.validate
validate(p) ==
    LET shape == FirstRaised(<< process_definition(p), workflow_options(p),
                                task_options_dict(p), global_upload_options(p),
                                collection_mapping(p), items_as_dicts(p),
                                collection_matchers(p), collection_options(p) >>)
    IN  IF Raised(shape) THEN shape
        ELSE LET mapping  == collection_mapping(p).val
                 matchers == collection_matchers(p).val
             IN  IF ~Truthy(matchers) /\ ~Truthy(mapping)
                 THEN Raise("ValueError",
                            "'collection_matchers' or the legacy 'upload_options.collections' must be provided",
                            "")
                 ELSE IF Truthy(matchers) /\ Truthy(mapping)
                 THEN Raise("ValueError",
                            "A payload must not contain both 'collection_matchers' and the legacy 'upload_options.collections'",
                            "")
                 ELSE MatcherOptionsLoop(p, matchers.v, 1)

----------------------------------------------------------------------------
(* Collection resolution (stactask/utils.py) *)

\* The JSONPath expressions of the model, as jsonpath_ng parses them:
\* a filter on one field of the element, every element, or every child of
\* one field of the element.
JsonPathParse(expr) ==
    CASE expr = "$[?(@.id == 'i1')]"
             -> [op |-> "filter_eq", field |-> "id", value |-> "i1"]
      [] expr = "$[?(@.id == 'i2')]"
             -> [op |-> "filter_eq", field |-> "id", value |-> "i2"]
      [] expr = "$[?(@.collection == 'A')]"
             -> [op |-> "filter_eq", field |-> "collection", value |-> "A"]
      [] expr = "$[?(@.collection == 'B')]"
             -> [op |-> "filter_eq", field |-> "collection", value |-> "B"]
      [] expr = "$[*]"
             -> [op |-> "all", field |-> "", value |-> ""]
      [] expr = "$[*].properties.*"
             -> [op |-> "children", field |-> "properties", value |-> ""]
      [] OTHER
             -> [op |-> "nothing", field |-> "", value |-> ""]

\* len(parser.parse(expr).find([doc])): the number of nodes expr selects in
\* the one-element list [doc]
JsonPathFind(doc, expr) ==
    LET e == JsonPathParse(expr)
    IN  CASE e.op = "filter_eq" ->
                 IF /\ IsDict(doc)
                    /\ HasKey(doc, e.field)
                    /\ DictGet(doc, e.field, None) = Str(e.value)
                 THEN 1 ELSE 0
          [] e.op = "all" -> 1
          [] e.op = "children" ->
                 IF IsDict(doc) /\ HasKey(doc, e.field)
                 THEN LET c == DictGet(doc, e.field, None)
                      IN  IF IsDict(c) \/ IsList(c) THEN Len(c.v) ELSE 0
                 ELSE 0
          [] OTHER -> 0

\* stac_jsonpath_match
stac_jsonpath_match(doc, expr) == JsonPathFind(doc, expr) = 1

\* _find_collection_from_mapping: the generator is read from entry i on
RECURSIVE MappingLoop(_, _, _)
MappingLoop(mapping, doc, i) ==
    IF i > Len(mapping.k) THEN Ok(None)
    ELSE IF stac_jsonpath_match(doc, mapping.v[i].v[1]) THEN Ok(Str(mapping.k[i]))
    ELSE MappingLoop(mapping, doc, i + 1)

_find_collection_from_mapping(mapping, doc) == MappingLoop(mapping, doc, 1)

\* Mutant of MatcherLoop: a matcher of an unknown type is skipped
RECURSIVE MatcherLoopSkipsUnknown(_, _, _)
MatcherLoopSkipsUnknown(matchers, doc, i) ==
    IF i > Len(matchers) THEN Ok(None)
    ELSE LET matcher_type == DictGet(matchers[i], "type", None)
             name == DictGet(matchers[i], "collection_name", None)
         IN  IF \/ matcher_type = Str("catch_all")
                \/ /\ matcher_type = Str("jsonpath")
                   /\ stac_jsonpath_match(doc, DictGet(matchers[i], "pattern", None).v[1])
             THEN Ok(name)
             ELSE MatcherLoopSkipsUnknown(matchers, doc, i + 1)

\* Mutant of MatcherLoop: the last matching matcher wins
RECURSIVE MatcherLoopLastWins(_, _, _)
MatcherLoopLastWins(matchers, doc, i) ==
    IF i > Len(matchers) THEN Ok(None)
    ELSE LET matcher_type == DictGet(matchers[i], "type", None)
             name == DictGet(matchers[i], "collection_name", None)
             later == MatcherLoopLastWins(matchers, doc, i + 1)
         IN  IF ~(matcher_type = Str("catch_all") \/ matcher_type = Str("jsonpath"))
             THEN Raise("ValueError", "Unknown matcher type", matcher_type.v[1])
             ELSE IF later # Ok(None) THEN later
             ELSE IF \/ matcher_type = Str("catch_all")
                     \/ stac_jsonpath_match(doc, DictGet(matchers[i], "pattern", None).v[1])
             THEN Ok(name)
             ELSE Ok(None)

\* The loop of _find_collection_from_matchers, from matcher i on
RECURSIVE MatcherLoop(_, _, _)
MatcherLoop(matchers, doc, i) ==
    IF i > Len(matchers) THEN Ok(None)
    ELSE LET matcher == matchers[i]
         IN  IF ~HasKey(matcher, "type") THEN Raise("KeyError", "type", "")
             ELSE IF ~HasKey(matcher, "collection_name")
             THEN Raise("KeyError", "collection_name", "")
             ELSE LET matcher_type == DictGet(matcher, "type", None)
                      name == DictGet(matcher, "collection_name", None)
                  IN  IF matcher_type = Str("jsonpath")
                      THEN IF ~HasKey(matcher, "pattern")
                           THEN Raise("KeyError", "pattern", "")
                           ELSE IF stac_jsonpath_match(
                                       doc, DictGet(matcher, "pattern", None).v[1])
                           THEN Ok(name)
                           ELSE MatcherLoop(matchers, doc, i + 1)
                      ELSE IF matcher_type = Str("catch_all") THEN Ok(name)
                      ELSE Raise("ValueError", "Unknown matcher type",
                                 matcher_type.v[1])

_find_collection_from_matchers(matchers, doc) == MatcherLoop(matchers.v, doc, 1)

\* find_collection
find_collection(config, doc) ==
    IF ~Truthy(config) THEN Ok(None)
    ELSE IF IsDict(config) THEN _find_collection_from_mapping(config, doc)
    ELSE IF IsList(config) THEN _find_collection_from_matchers(config, doc)
    ELSE Raise("TypeError", "Unsupported collection config type", "")

----------------------------------------------------------------------------
(* Task (stactask/task.py) *)

\* {**a, **b}: a's entries, then b's entries set one by one from entry i on
RECURSIVE DictMerge(_, _, _)
DictMerge(a, b, i) ==
    IF i > Len(b.k) THEN a
    ELSE DictMerge(DictSet(a, b.k[i], b.v[i]), b, i + 1)

\* Task.task_options
task_options(p, name) ==
    LET tod == task_options_dict(p)
    IN  IF Raised(tod) THEN tod ELSE Ok(DictGet(tod.val, name, EmptyDict))

\* Mutant of parameters: the workflow options overlay the task options
parameters_workflow_wins(p, name) ==
    LET wo == workflow_options(p)
        to == task_options(p, name)
    IN  IF Raised(wo) THEN wo
        ELSE IF Raised(to) THEN to
        ELSE Ok(DictMerge(to.val, wo.val, 1))

\* Task.parameters
parameters(p, name) ==
    LET wo == workflow_options(p)
        to == task_options(p, name)
    IN  IF Raised(wo) THEN wo
        ELSE IF Raised(to) THEN to
        ELSE Ok(DictMerge(wo.val, to.val, 1))

\* The order of the extension names of the model: Python's str order
StrLess(a, b) ==
    LET rank(x) == CASE x = "e1" -> 1 [] x = "e2" -> 2 [] x = "e3" -> 3 [] OTHER -> 4
    IN  rank(a.v[1]) < rank(b.v[1])

\* list.sort(): a stable insertion sort
RECURSIVE SortList(_)
SortList(q) ==
    IF Len(q) <= 1 THEN q
    ELSE LET front == SortList(SubSeq(q, 1, Len(q) - 1))
             x     == q[Len(q)]
             n     == Cardinality({i \in 1..Len(front) : ~StrLess(x, front[i])})
         IN  SubSeq(front, 1, n) \o <<x>> \o SubSeq(front, n + 1, Len(front))

\* What Task.post_process_item of task class cls returns for record doc,
\* when it does not raise: the default hook and that of PostProcessTask
\* return the record they were given, as they leave it; the hook of
\* ReplaceTask leaves its argument alone and returns a new record
post_process_item_returns(cls, doc) ==
    IF cls = "ReplaceTask" THEN DictSet(doc, "replaced", Str("yes"))
    ELSE IF cls = "PostProcessTask"
    THEN DictSet(doc, "stac_extensions",
                 List(<<Str("zzz")>> \o DictGet(doc, "stac_extensions", EmptyList).v))
    ELSE doc

\* Task.post_process_item of task class cls, applied to record doc: the
\* record as the hook leaves it. The default hook leaves it as it is; the hook
\* of PostProcessTask inserts "zzz" in front of the record's stac_extensions.
post_process_item(cls, doc) ==
    IF cls = "PostProcessTask"
    THEN IF ~HasKey(doc, "stac_extensions")
         THEN Raise("KeyError", "stac_extensions", "")
         ELSE LET ext == DictGet(doc, "stac_extensions", None)
              IN  IF ~IsList(ext)
                  THEN Raise("AttributeError", "object has no attribute 'insert'", ext.t)
                  ELSE Ok(DictSet(doc, "stac_extensions", List(<<Str("zzz")>> \o ext.v)))
    ELSE Ok(doc)

\* Mutant of _post_process_item: the extensions are left in the hook's order
_post_process_item_unsorted(cls, doc) ==
    LET hooked == post_process_item(cls, doc)
    IN  IF Raised(hooked) THEN hooked
        ELSE IF HasKey(hooked.val, "stac_extensions")
                  /\ ~IsList(DictGet(hooked.val, "stac_extensions", None))
        THEN Raise("TypeError", "stac_extensions must be type list",
                   DictGet(hooked.val, "stac_extensions", None).t)
        ELSE hooked

\* Task._post_process_item
_post_process_item(cls, doc) ==
    LET hooked == post_process_item(cls, doc)
    IN  IF Raised(hooked) THEN hooked
        ELSE LET after == hooked.val
             IN  IF HasKey(after, "stac_extensions")
                 THEN LET ext == DictGet(after, "stac_extensions", None)
                      IN  IF ~IsList(ext)
                          THEN Raise("TypeError", "stac_extensions must be type list", ext.t)
                          ELSE Ok(DictSet(after, "stac_extensions", List(SortList(ext.v))))
                 ELSE Ok(after)

\* Mutant of Task__init__: the deprecated skip_upload is not looked at
Task__init__ignores_skip_upload(kw) ==
    [constructed   |-> TRUE,
     _upload       |-> kw.upload,
     _skip_upload  |-> ~kw.upload,
     _workdir      |-> IF kw.workdir = "none" THEN "tmp" ELSE "given",
     _save_workdir |-> IF kw.save_workdir # "none" THEN kw.save_workdir = "true"
                       ELSE kw.workdir # "none"]

\* Mutant of Task__init__: the directory is kept only when the caller says so
Task__init__discard_by_default(kw) ==
    [constructed   |-> TRUE,
     _upload       |-> IF kw.skip_upload THEN FALSE ELSE kw.upload,
     _skip_upload  |-> ~kw.upload,
     _workdir      |-> IF kw.workdir = "none" THEN "tmp" ELSE "given",
     _save_workdir |-> kw.save_workdir = "true"]

\* The fields Task.__init__ sets from its arguments kw
Task__init__(kw) ==
    [constructed   |-> TRUE,
     _upload       |-> IF kw.skip_upload THEN FALSE ELSE kw.upload,
     _skip_upload  |-> ~kw.upload,
     _workdir      |-> IF kw.workdir = "none" THEN "tmp" ELSE "given",
     _save_workdir |-> IF kw.save_workdir # "none" THEN kw.save_workdir = "true"
                       ELSE kw.workdir # "none"]

\* No Task object (task = None in handler)
NoTask ==
    [constructed |-> FALSE, _upload |-> FALSE, _skip_upload |-> FALSE,
     _workdir |-> "none", _save_workdir |-> FALSE]

\* The constructor's defaults, for a task of class NothingTask
DefaultKwargs ==
    [cls |-> "NothingTask", workdir |-> "none", save_workdir |-> "none",
     skip_upload |-> FALSE, skip_validation |-> FALSE, upload |-> TRUE,
     validate |-> TRUE]

NoCalls == [process |-> 0, cleanup_workdir |-> 0, warning |-> 0, storage |-> 0]

\* The state of the variables of a task when no task is involved
TaskUnused ==
    /\ kwargs = DefaultKwargs
    /\ task = NoTask
    /\ workdir_exists = FALSE
    /\ calls = NoCalls

\* Mutant of AssignLoop: a record that already carries the resolved name gets
\* an empty collection
RECURSIVE AssignLoopToggle(_, _, _)
AssignLoopToggle(config, features, i) ==
    IF i > Len(features) THEN [outcome |-> Ok(None), features |-> features]
    ELSE LET coll == find_collection(config, features[i])
         IN  IF Raised(coll) THEN [outcome |-> coll, features |-> features]
             ELSE IF Truthy(coll.val)
             THEN AssignLoopToggle(
                      config,
                      [features EXCEPT ![i] =
                           DictSet(features[i], "collection",
                                   IF DictGet(features[i], "collection", None) = coll.val
                                   THEN Str("") ELSE coll.val)],
                      i + 1)
             ELSE AssignLoopToggle(config, features, i + 1)

\* The loop of Task.assign_collections from record i on: the records as they
\* are when the loop ends or raises, and the exception if it raises
RECURSIVE AssignLoop(_, _, _)
AssignLoop(config, features, i) ==
    IF i > Len(features) THEN [outcome |-> Ok(None), features |-> features]
    ELSE LET coll == find_collection(config, features[i])
         IN  IF Raised(coll) THEN [outcome |-> coll, features |-> features]
             ELSE IF Truthy(coll.val)
             THEN AssignLoop(
                      config,
                      [features EXCEPT ![i] = DictSet(features[i], "collection", coll.val)],
                      i + 1)
             ELSE AssignLoop(config, features, i + 1)

\* Mutant of assign_collections: the legacy mapping is used when it is
\* non-empty, and collection_matchers otherwise
assign_collections_mapping_first(p) ==
    LET matchers == collection_matchers(p)
        mapping  == collection_mapping(p)
    IN  IF Raised(matchers) THEN [outcome |-> matchers, payload |-> p]
        ELSE IF Raised(mapping) THEN [outcome |-> mapping, payload |-> p]
        ELSE LET config == IF Truthy(mapping.val) THEN mapping.val ELSE matchers.val
                 done   == AssignLoop(config, DictGet(p, "features", None).v, 1)
             IN  [outcome |-> done.outcome,
                  payload |-> DictSet(p, "features", List(done.features))]

\* Task.assign_collections: the payload afterwards, and the exception if any
assign_collections(p) ==
    LET matchers == collection_matchers(p)
        mapping  == collection_mapping(p)
    IN  IF Raised(matchers) THEN [outcome |-> matchers, payload |-> p]
        ELSE IF ~Truthy(matchers.val) /\ Raised(mapping)
        THEN [outcome |-> mapping, payload |-> p]
        ELSE IF ~HasKey(p, "features")
        THEN [outcome |-> Raise("KeyError", "features", ""), payload |-> p]
        ELSE LET config == IF Truthy(matchers.val) THEN matchers.val ELSE mapping.val
                 done   == AssignLoop(config, DictGet(p, "features", None).v, 1)
             IN  [outcome |-> done.outcome,
                  payload |-> DictSet(p, "features", List(done.features))]

----------------------------------------------------------------------------
(* Inputs *)

\* All sequences over S of length at most n
RECURSIVE SeqsUpTo(_, _)
SeqsUpTo(S, n) ==
    IF n = 0 THEN {<<>>}
    ELSE LET shorter == SeqsUpTo(S, n - 1)
         IN  shorter \cup {Append(q, x) : q \in shorter, x \in S}

Distinct(q) == \A i, j \in 1..Len(q) : i # j => q[i] # q[j]

\* A dict from the (key, value) pairs of a sequence of records [key, val]
DictOf(pairs) ==
    Dict([i \in 1..Len(pairs) |-> pairs[i].key], [i \in 1..Len(pairs) |-> pairs[i].val])

\* A dict with the entries whose value is not the marker "absent"
Absent == [t |-> "absent", k |-> <<>>, v |-> <<>>]

RECURSIVE Present(_, _, _)
Present(keys, vals, i) ==
    IF i > Len(keys) THEN EmptyDict
    ELSE LET rest == Present(keys, vals, i + 1)
         IN  IF vals[i] = Absent THEN rest
             ELSE Dict(<<keys[i]>> \o rest.k, <<vals[i]>> \o rest.v)

DictOfPresent(keys, vals) == Present(keys, vals, 1)

TaskNames == {"t1", "t2"}

OptionValues == {Num(1), Dict(<<"x">>, <<Num(1)>>), Dict(<<"y">>, <<Num(2)>>)}

\* Option mappings over the keys a and b
OptionDicts ==
    {EmptyDict}
      \cup {Dict(<<key>>, <<val>>) : key \in {"a", "b"}, val \in OptionValues}
      \cup {Dict(<<"a", "b">>, <<va, vb>>) : va \in OptionValues, vb \in OptionValues}

LegacyParameters ==
    {Absent, EmptyDict, Dict(<<"a">>, <<Num(1)>>),
     Dict(<<"b", "a">>, <<Num(1), Dict(<<"y">>, <<Num(2)>>)>>)}

\* One entry {name, parameters} of the deprecated list form of tasks
TaskConfigs ==
    {DictOfPresent(<<"name", "parameters">>, <<Str(n), prm>>) :
         n \in TaskNames, prm \in LegacyParameters}

\* The current-schema forms of tasks
TaskDicts ==
    {DictOfPresent(<<"t1", "t2">>, <<o1, o2>>) :
         o1 \in OptionDicts \cup {Absent},
         o2 \in {Absent, Dict(<<"a">>, <<Num(1)>>)}}

\* The payload whose process is the list [definition]
PayloadOf(definition, features) ==
    Dict(<<"process", "features">>, <<List(<<definition>>), List(features)>>)

ParameterPayloads ==
    {PayloadOf(DictOfPresent(<<"workflow_options", "tasks">>, <<wo, tasks>>), <<>>) :
         wo \in OptionDicts \cup {Absent},
         tasks \in {Absent} \cup TaskDicts
                     \cup {List(q) : q \in SeqsUpTo(TaskConfigs, MaxTaskConfigs)}}

----------------------------------------------------------------------------
(* Parameter resolution: the accessors applied to a payload *)

InitParameters ==
    /\ SharedUnused
    /\ payload \in ParameterPayloads
    /\ task_name \in TaskNames
    /\ collection_config = None
    /\ item = None
    /\ collection_name = ""
    /\ output = <<>>
    /\ items = <<>>
    /\ TaskUnused
    /\ pc = "created"
    /\ ret = NoResult

ReadTaskOptionsDict ==
    /\ pc = "created"
    /\ ret' = task_options_dict(payload)
    /\ pc' = "task_options_dict"
    /\ UNCHANGED <<sharedvars, taskvars, payload, task_name, collection_config, item, collection_name, output, items>>

ReadTaskOptions ==
    /\ pc = "created"
    /\ ret' = task_options(payload, task_name)
    /\ pc' = "task_options"
    /\ UNCHANGED <<sharedvars, taskvars, payload, task_name, collection_config, item, collection_name, output, items>>

ReadParameters ==
    /\ pc = "created"
    /\ ret' = parameters(payload, task_name)
    /\ pc' = "parameters"
    /\ UNCHANGED <<sharedvars, taskvars, payload, task_name, collection_config, item, collection_name, output, items>>

NextParameters == ReadTaskOptionsDict \/ ReadTaskOptions \/ ReadParameters

SpecParameters == InitParameters /\ [][NextParameters]_vars

----------------------------------------------------------------------------
(* What the payload of the current state declares, read directly *)

Keys(d) == {d.k[i] : i \in 1..Len(d.k)}

\* process[0] of a payload whose process is a non-empty list
Definition == DictGet(payload, "process", EmptyList).v[1]

DeclaredWorkflowOptions == DictGet(Definition, "workflow_options", EmptyDict)

DeclaredTasks == DictGet(Definition, "tasks", EmptyDict)

\* The entries of the deprecated task list that name task n
EntriesNaming(n) ==
    {i \in 1..Len(DeclaredTasks.v) : DictGet(DeclaredTasks.v[i], "name", None) = Str(n)}

EntryParameters(i) == DictGet(DeclaredTasks.v[i], "parameters", EmptyDict)

EntryNames == [i \in 1..Len(DeclaredTasks.v) |-> DictGet(DeclaredTasks.v[i], "name", None).v[1]]

Least(S) == CHOOSE i \in S : \A j \in S : i <= j

Greatest(S) == CHOOSE i \in S : \A j \in S : i >= j

\* The deprecated list names no task twice
LegacyTasksDistinct == IsList(DeclaredTasks) /\ Distinct(EntryNames)

\* The current-schema mapping equivalent to a deprecated list with distinct names
EquivalentTaskDict ==
    Dict(EntryNames, [i \in 1..Len(DeclaredTasks.v) |-> EntryParameters(i)])

\* The options the payload configures for the task: tasks[T] or the empty mapping
ConfiguredTaskOptions ==
    IF IsDict(DeclaredTasks) THEN DictGet(DeclaredTasks, task_name, EmptyDict)
    ELSE DictGet(EquivalentTaskDict, task_name, EmptyDict)

----------------------------------------------------------------------------
(* C1: Task.parameters is the shallow merge of the workflow options overlaid
   by the options configured for the task: every key of the task options has
   the task's value (a nested mapping is taken whole, not merged), every
   other workflow key keeps the workflow value, there is no other key, and
   with neither configured the result is the empty mapping. *)
ParametersShallowMerge ==
    (pc = "parameters" /\ (IsDict(DeclaredTasks) \/ LegacyTasksDistinct)) =>
        LET wo == DeclaredWorkflowOptions
            to == ConfiguredTaskOptions
        IN  /\ ret.exc = "none"
            /\ IsDict(ret.val)
            /\ Distinct(ret.val.k)
            /\ Keys(ret.val) = Keys(wo) \cup Keys(to)
            /\ \A key \in Keys(to) : DictGet(ret.val, key, None) = DictGet(to, key, None)
            /\ \A key \in Keys(wo) \ Keys(to) :
                   DictGet(ret.val, key, None) = DictGet(wo, key, None)
            /\ (Keys(wo) = {} /\ Keys(to) = {}) => ret.val = EmptyDict

\* C1 witness: the parameters were resolved where both levels set key a to
\* different nested mappings and only the workflow sets key b
ParametersShallowMergeWitness ==
    /\ pc = "parameters"
    /\ IsDict(DeclaredTasks)
    /\ LET wo == DeclaredWorkflowOptions
           to == ConfiguredTaskOptions
       IN  /\ HasKey(wo, "a") /\ HasKey(to, "a")
           /\ IsDict(DictGet(wo, "a", None)) /\ IsDict(DictGet(to, "a", None))
           /\ DictGet(wo, "a", None) # DictGet(to, "a", None)
           /\ HasKey(wo, "b") /\ ~HasKey(to, "b")

(* C9: a deprecated task list with distinct names resolves as the mapping
   name -> parameters (the empty mapping when parameters is omitted): the
   options dict equals that mapping, each task's options and final parameters
   are those of the payload that states the mapping in the current schema,
   and a name not listed resolves to the empty mapping. *)
LegacyTaskListEquivalent ==
    LegacyTasksDistinct =>
        LET equivalent ==
                PayloadOf(DictSet(Definition, "tasks", EquivalentTaskDict), <<>>)
        IN  /\ pc = "task_options_dict" =>
                   ret.exc = "none" /\ DictEq(ret.val, EquivalentTaskDict)
            /\ pc = "task_options" =>
                   /\ ret = task_options(equivalent, task_name)
                   /\ ret.exc = "none"
                   /\ EntriesNaming(task_name) = {} => ret.val = EmptyDict
                   /\ \A i \in EntriesNaming(task_name) : ret.val = EntryParameters(i)
            /\ pc = "parameters" =>
                   ret = parameters(equivalent, task_name) /\ ret.exc = "none"

\* C9 witness: options were resolved from a list of two distinct names, one
\* with parameters (the task's) and one without
LegacyTaskListEquivalentWitness ==
    /\ pc = "task_options"
    /\ LegacyTasksDistinct
    /\ Len(DeclaredTasks.v) = 2
    /\ \E i \in EntriesNaming(task_name) : Len(EntryParameters(i).k) > 0
    /\ \E i \in 1..2 : ~HasKey(DeclaredTasks.v[i], "parameters")

(* C10 as claimed: when the deprecated list names the task several times,
   the options resolved for it are the parameters of the first such entry. *)
LegacyDuplicateFirstWins ==
    (pc = "task_options" /\ IsList(DeclaredTasks) /\ EntriesNaming(task_name) # {}) =>
        ret = Ok(EntryParameters(Least(EntriesNaming(task_name))))

(* C10 as amended: when the deprecated list names the task several times,
   the options resolved for it are the parameters of the last such entry. *)
LegacyDuplicateLastWins ==
    (pc = "task_options" /\ IsList(DeclaredTasks) /\ EntriesNaming(task_name) # {}) =>
        ret = Ok(EntryParameters(Greatest(EntriesNaming(task_name))))

\* C10 witness: options were resolved for a task that two entries name with
\* different parameters
LegacyDuplicateWitness ==
    /\ pc = "task_options"
    /\ IsList(DeclaredTasks)
    /\ \E i, j \in EntriesNaming(task_name) :
           i < j /\ EntryParameters(i) # EntryParameters(j)

----------------------------------------------------------------------------
(* Collection resolution: find_collection applied to a configuration and a
   record *)

CollectionNames == {"A", "B", "C"}

Expressions ==
    {"$[?(@.id == 'i1')]", "$[?(@.collection == 'A')]", "$[*]", "$[*].properties.*"}

\* Records: an id, an optional collection, optional properties
Records ==
    {DictOfPresent(<<"id", "collection", "properties">>, <<Str(id), coll, props>>) :
         id \in {"i1", "i2"},
         coll \in {Absent, Str("A"), Str("B")},
         props \in {Absent, Dict(<<"p">>, <<Num(1)>>),
                    Dict(<<"p", "q">>, <<Num(1), Num(1)>>)}}

\* Matchers of the current schema, one of them of an unrecognized type
Matchers ==
    {Dict(<<"type", "pattern", "collection_name">>, <<Str("jsonpath"), Str(e), Str(c)>>) :
         e \in Expressions, c \in {"A", "B"}}
      \cup {Dict(<<"type", "collection_name">>, <<Str(ty), Str(c)>>) :
                ty \in {"catch_all", "bogus"}, c \in {"A", "B"}}

\* Legacy mappings collection name -> expression, in insertion order
LegacyMappings ==
    {Dict(names, exprs) :
         names \in {q \in SeqsUpTo(CollectionNames, MaxMatchers) : Distinct(q)},
         exprs \in {q \in SeqsUpTo({Str(e) : e \in Expressions}, MaxMatchers) : TRUE}}

CollectionConfigs ==
    {List(q) : q \in SeqsUpTo(Matchers, MaxMatchers)}
      \cup {d \in LegacyMappings : Len(d.k) = Len(d.v)}

InitCollections ==
    /\ SharedUnused
    /\ payload = EmptyDict
    /\ task_name = "t1"
    /\ collection_config \in CollectionConfigs
    /\ item \in Records
    /\ collection_name = ""
    /\ output = <<>>
    /\ items = <<>>
    /\ TaskUnused
    /\ pc = "created"
    /\ ret = NoResult

FindCollection ==
    /\ pc = "created"
    /\ ret' = find_collection(collection_config, item)
    /\ pc' = "found"
    /\ UNCHANGED <<sharedvars, taskvars, payload, task_name, collection_config, item, collection_name, output, items>>

NextCollections == FindCollection

SpecCollections == InitCollections /\ [][NextCollections]_vars

\* The entries of the configuration, in order
ConfigLen == Len(collection_config.v)

EntryType(i) ==
    IF IsDict(collection_config) THEN "jsonpath"
    ELSE DictGet(collection_config.v[i], "type", None).v[1]

EntryCollection(i) ==
    IF IsDict(collection_config) THEN collection_config.k[i]
    ELSE DictGet(collection_config.v[i], "collection_name", None).v[1]

EntryPattern(i) ==
    IF IsDict(collection_config) THEN collection_config.v[i].v[1]
    ELSE DictGet(collection_config.v[i], "pattern", None).v[1]

\* Entry i matches the record: a catch_all always, a jsonpath entry when its
\* expression selects exactly one node
EntryMatches(i) ==
    \/ EntryType(i) = "catch_all"
    \/ EntryType(i) = "jsonpath" /\ JsonPathFind(item, EntryPattern(i)) = 1

MatchingEntries == {i \in 1..ConfigLen : EntryMatches(i)}

UnknownEntries == {i \in 1..ConfigLen : EntryType(i) \notin {"jsonpath", "catch_all"}}

\* Resolution reaches entry i: no earlier entry matched or is of unknown type
Reached(i) == \A j \in 1..(i - 1) : j \notin MatchingEntries \cup UnknownEntries

(* C4: find_collection returns the collection of the first entry, in list or
   insertion order, that matches the record (jsonpath: exactly one node
   selected; catch_all: always), never a later one, and None when the
   configuration is empty or no entry matches. *)
FirstMatchWins ==
    pc = "found" =>
        /\ ConfigLen = 0 => ret = Ok(None)
        /\ (MatchingEntries = {} /\ UnknownEntries = {}) => ret = Ok(None)
        /\ \A i \in MatchingEntries :
               Reached(i) => ret = Ok(Str(EntryCollection(i)))

\* C4 witness: a record was resolved that two jsonpath entries with
\* different collections match, and the first one's collection was returned
FirstMatchWinsWitness ==
    /\ pc = "found"
    /\ ConfigLen >= 2
    /\ {1, 2} \subseteq MatchingEntries
    /\ EntryType(1) = "jsonpath" /\ EntryType(2) = "jsonpath"
    /\ EntryPattern(1) # EntryPattern(2)
    /\ EntryCollection(1) # EntryCollection(2)
    /\ ret = Ok(Str(EntryCollection(1)))

(* C5: resolving against a matcher list raises the unknown-matcher-type error
   exactly when resolution reaches a matcher of a type other than jsonpath and
   catch_all; when an earlier matcher matches, its collection is returned and
   nothing is raised; an unknown matcher is never skipped. *)
UnknownMatcherTypeFatal ==
    (pc = "found" /\ IsList(collection_config)) =>
        /\ ret.exc = "ValueError" <=> \E i \in UnknownEntries : Reached(i)
        /\ \A i \in UnknownEntries :
               Reached(i) =>
                   ret = Raise("ValueError", "Unknown matcher type", EntryType(i))
        /\ \A i \in UnknownEntries :
               \A j \in MatchingEntries :
                   (j < i /\ Reached(j)) => ret = Ok(Str(EntryCollection(j)))

\* C5 witness: resolution passed a jsonpath matcher that did not match,
\* reached an unknown matcher behind it, and raised
UnknownMatcherTypeFatalWitness ==
    /\ pc = "found"
    /\ IsList(collection_config)
    /\ ConfigLen >= 2
    /\ EntryType(1) = "jsonpath" /\ 1 \notin MatchingEntries
    /\ 2 \in UnknownEntries
    /\ ret.exc = "ValueError"

----------------------------------------------------------------------------
(* Validation and upload options: Payload.validate and
   Payload.get_collection_upload_options applied to a payload *)

GlobalUploadOptions ==
    {Absent, EmptyDict,
     Dict(<<"path_template">>, <<Str("/g")>>),
     Dict(<<"path_template", "collections">>, <<Str("/g"), EmptyDict>>),
     Dict(<<"collections">>, <<Dict(<<"A">>, <<Str("$[*]")>>)>>),
     Dict(<<"path_template", "collections">>,
          <<Str("/g"), Dict(<<"A">>, <<Str("$[?(@.id == 'i1')]")>>)>>)}

NamedMatchers ==
    {Dict(<<"type", "pattern", "collection_name">>,
          <<Str("jsonpath"), Str("$[?(@.id == 'i1')]"), Str(c)>>) : c \in {"A", "Z"}}
      \cup {Dict(<<"type", "collection_name">>, <<Str("catch_all"), Str(c)>>) :
                c \in {"A", "Z"}}

CollectionOptionDicts ==
    {Absent}
      \cup {DictOfPresent(<<"A", "Z">>, <<oa, oz>>) :
                oa \in {Absent,
                        Dict(<<"upload_options">>,
                             <<Dict(<<"path_template">>, <<Str("/a")>>)>>)},
                oz \in {Absent, EmptyDict,
                        Dict(<<"upload_options">>, <<EmptyDict>>),
                        Dict(<<"upload_options">>,
                             <<Dict(<<"path_template">>, <<Str("/z")>>)>>)}}

UploadPayloads ==
    {PayloadOf(DictOfPresent(<<"upload_options", "collection_matchers",
                               "collection_options">>, <<uo, ms, co>>), <<>>) :
         uo \in GlobalUploadOptions,
         ms \in {Absent} \cup {List(q) : q \in SeqsUpTo(NamedMatchers, MaxMatchers)},
         co \in CollectionOptionDicts}

InitUploadOptions ==
    /\ SharedUnused
    /\ payload \in UploadPayloads
    /\ task_name = "t1"
    /\ collection_config = None
    /\ item = None
    /\ collection_name \in {"A", "Z", "other"}
    /\ output = <<>>
    /\ items = <<>>
    /\ TaskUnused
    /\ pc = "created"
    /\ ret = NoResult

Validate ==
    /\ pc = "created"
    /\ ret' = validate(payload)
    /\ pc' = "validated"
    /\ UNCHANGED <<sharedvars, taskvars, payload, task_name, collection_config, item, collection_name, output, items>>

GetCollectionUploadOptions ==
    /\ pc = "created"
    /\ ret' = get_collection_upload_options(payload, collection_name)
    /\ pc' = "upload_options"
    /\ UNCHANGED <<sharedvars, taskvars, payload, task_name, collection_config, item, collection_name, output, items>>

NextUploadOptions == Validate \/ GetCollectionUploadOptions

SpecUploadOptions == InitUploadOptions /\ [][NextUploadOptions]_vars

DeclaredUploadOptions == DictGet(Definition, "upload_options", EmptyDict)

DeclaredCollections == DictGet(DeclaredUploadOptions, "collections", EmptyDict)

DeclaredMatchers == DictGet(Definition, "collection_matchers", EmptyList)

DeclaredCollectionOptions == DictGet(Definition, "collection_options", EmptyDict)

\* collection_options[n].upload_options, the empty mapping when there is none
OwnUploadOptions(n) ==
    DictGet(DictGet(DeclaredCollectionOptions, n, EmptyDict), "upload_options", EmptyDict)

MatcherCollection(i) == DictGet(DeclaredMatchers.v[i], "collection_name", None).v[1]

ExclusionError ==
    Raise("ValueError",
          "A payload must not contain both 'collection_matchers' and the legacy 'upload_options.collections'",
          "")

MissingUploadOptionsError(n) ==
    Raise("ValueError", "No upload options found for collection", n)

(* C2: validate() fails with the mutual-exclusion error whenever the payload
   has both a non-empty collection_matchers list and a non-empty legacy
   upload_options.collections mapping. *)
MutualExclusion ==
    (pc = "validated" /\ Len(DeclaredMatchers.v) > 0 /\ Len(DeclaredCollections.k) > 0)
        => ret = ExclusionError

\* C2 witness: a payload with both configurations, and upload options for
\* every matcher's collection, was validated
MutualExclusionWitness ==
    /\ pc = "validated"
    /\ Len(DeclaredMatchers.v) > 0
    /\ Len(DeclaredCollections.k) > 0
    /\ HasKey(DeclaredUploadOptions, "path_template")
    /\ HasKey(DeclaredCollectionOptions, "A")

(* C6 as claimed: get_collection_upload_options(name) returns
   collection_options[name].upload_options when it exists and is non-empty,
   and otherwise returns the global upload_options. *)
UploadOptionsFallback ==
    pc = "upload_options" =>
        ret = Ok(IF Len(OwnUploadOptions(collection_name).k) > 0
                 THEN OwnUploadOptions(collection_name)
                 ELSE DeclaredUploadOptions)

(* C6 as amended: get_collection_upload_options(name) returns
   collection_options[name].upload_options when it exists and is non-empty;
   otherwise it returns the global upload_options when they are non-empty,
   and raises the missing-upload-options error naming the collection when
   they are absent or empty. *)
UploadOptionsFallbackOrError ==
    pc = "upload_options" =>
        ret = IF Len(OwnUploadOptions(collection_name).k) > 0
              THEN Ok(OwnUploadOptions(collection_name))
              ELSE IF Len(DeclaredUploadOptions.k) > 0
              THEN Ok(DeclaredUploadOptions)
              ELSE MissingUploadOptionsError(collection_name)

\* C6 witness: the options of a collection with an empty upload_options
\* override were resolved, from a payload with global options and an
\* override for another collection
UploadOptionsFallbackWitness ==
    /\ pc = "upload_options"
    /\ collection_name = "Z"
    /\ HasKey(DeclaredCollectionOptions, "Z")
    /\ HasKey(DictGet(DeclaredCollectionOptions, "Z", EmptyDict), "upload_options")
    /\ Len(OwnUploadOptions("Z").k) = 0
    /\ Len(OwnUploadOptions("A").k) > 0
    /\ Len(DeclaredUploadOptions.k) > 0
    /\ ret = Ok(DeclaredUploadOptions)

\* The matchers whose collection has no upload options of its own
MatchersLackingOptions ==
    {i \in 1..Len(DeclaredMatchers.v) : Len(OwnUploadOptions(MatcherCollection(i)).k) = 0}

(* C7: validate() raises the missing-upload-options error whenever a matcher
   names a collection without non-empty upload_options of its own and the
   global upload_options is absent or empty; the error names the collection
   of the first such matcher in list order. *)
MissingUploadOptionsFatal ==
    (/\ pc = "validated"
     /\ Len(DeclaredUploadOptions.k) = 0
     /\ MatchersLackingOptions # {})
        => ret = MissingUploadOptionsError(MatcherCollection(Least(MatchersLackingOptions)))

\* C7 witness: without global options, a list was validated whose first
\* matcher has options of its own and whose second has none
MissingUploadOptionsFatalWitness ==
    /\ pc = "validated"
    /\ Len(DeclaredUploadOptions.k) = 0
    /\ Len(DeclaredMatchers.v) >= 2
    /\ MatchersLackingOptions # {}
    /\ 1 \notin MatchersLackingOptions
    /\ ret = MissingUploadOptionsError("Z")

\* The payload uses the legacy schema
LegacySchema == Len(DeclaredCollections.k) > 0 /\ Len(DeclaredMatchers.v) = 0

(* C8 as claimed: with the legacy schema (a non-empty upload_options.collections
   and no collection_matchers), resolving the upload options of any
   collection name returns the global upload options and never fails. *)
LegacyAlwaysGlobal ==
    (pc = "upload_options" /\ LegacySchema) => ret = Ok(DeclaredUploadOptions)

(* C8 as amended: with the legacy schema, resolving the upload options of any
   collection name never fails; it returns the global upload options unless
   collection_options holds a non-empty upload_options for that name, which
   is then what it returns. *)
LegacyNeverFails ==
    (pc = "upload_options" /\ LegacySchema) =>
        /\ ret.exc = "none"
        /\ Len(OwnUploadOptions(collection_name).k) = 0 => ret = Ok(DeclaredUploadOptions)
        /\ Len(OwnUploadOptions(collection_name).k) > 0
               => ret = Ok(OwnUploadOptions(collection_name))

\* C8 witness: with the legacy schema and no global path_template, the
\* options of a collection the mapping does not name were resolved
LegacyNeverFailsWitness ==
    /\ pc = "upload_options"
    /\ LegacySchema
    /\ ~HasKey(DeclaredUploadOptions, "path_template")
    /\ collection_name = "other"
    /\ ret = Ok(DeclaredUploadOptions)

----------------------------------------------------------------------------
(* Task.handler: construction, process, post-processing, collection
   assignment *)

HandlerRecords ==
    {Dict(<<"id">>, <<Str("i1")>>),
     Dict(<<"id", "collection">>, <<Str("i2"), Str("A")>>),
     Dict(<<"id", "collection", "stac_extensions">>,
          <<Str("i1"), Str("B"), List(<<Str("e2"), Str("e1")>>)>>),
     Dict(<<"id", "stac_extensions">>, <<Str("i2"), Str("e1")>>)}

HandlerUploadOptions ==
    {Absent,
     Dict(<<"path_template">>, <<Str("/g")>>),
     Dict(<<"path_template", "collections">>,
          <<Str("/g"), Dict(<<"A">>, <<Str("$[?(@.id == 'i1')]")>>)>>)}

HandlerMatchers ==
    {Absent,
     List(<<Dict(<<"type", "pattern", "collection_name">>,
                 <<Str("jsonpath"), Str("$[?(@.id == 'i1')]"), Str("A")>>),
            Dict(<<"type", "collection_name">>, <<Str("catch_all"), Str("B")>>)>>),
     List(<<Dict(<<"type", "pattern", "collection_name">>,
                 <<Str("jsonpath"), Str("$[?(@.collection == 'A')]"), Str("B")>>),
            Dict(<<"type", "pattern", "collection_name">>,
                 <<Str("jsonpath"), Str("$[?(@.collection == 'B')]"), Str("A")>>)>>),
     List(<<Dict(<<"type", "pattern", "collection_name">>,
                 <<Str("jsonpath"), Str("$[?(@.id == 'i1')]"), Str("A")>>),
            Dict(<<"type", "collection_name">>, <<Str("bogus"), Str("B")>>)>>)}

HandlerPayloads ==
    {PayloadOf(DictOfPresent(<<"workflow_options", "tasks", "upload_options",
                               "collection_matchers">>,
                             <<Dict(<<"a">>, <<Num(1)>>),
                               Dict(<<"t1">>, <<Dict(<<"b">>, <<Num(1)>>)>>),
                               uo, ms>>),
               features) :
         uo \in HandlerUploadOptions,
         ms \in HandlerMatchers,
         features \in SeqsUpTo(HandlerRecords, MaxItems)}

\* Payloads with a shape violation: process is no list, upload_options no
\* mapping, features no list
MalformedPayloads ==
    {Dict(<<"process", "features">>, <<Str("p"), EmptyList>>),
     PayloadOf(Dict(<<"upload_options", "collection_matchers">>,
                    <<Str("/g"),
                      List(<<Dict(<<"type", "collection_name">>,
                                  <<Str("catch_all"), Str("B")>>)>>)>>),
               <<>>),
     Dict(<<"process", "features">>,
          <<List(<<Dict(<<"upload_options", "collection_matchers">>,
                        <<Dict(<<"path_template">>, <<Str("/g")>>),
                          List(<<Dict(<<"type", "collection_name">>,
                                      <<Str("catch_all"), Str("B")>>)>>)>>)>>),
            Str("records")>>)}

\* What process may return for a payload: its records (echo), all but the
\* last (fan-in), or one record more (fan-out)
ProcessOutputs(p) ==
    LET features == DictGet(p, "features", EmptyList).v
    IN  {features}
          \cup {SubSeq(features, 1, Len(features) - 1) : n \in {m \in {1} : Len(features) > 0}}
          \cup {Append(features, Dict(<<"id">>, <<Str("i1")>>)) :
                    n \in {m \in {1} : Len(features) < MaxItems}}

\* The task classes and the constructor arguments handler is called with
HandlerKwargs ==
    {[cls |-> cls, workdir |-> wd, save_workdir |-> sw, skip_upload |-> FALSE,
      skip_validation |-> sv, upload |-> TRUE, validate |-> va] :
         cls \in {"NothingTask", "PostProcessTask", "ReplaceTask", "FailValidateTask",
                  "RejectTask"},
         wd \in {"none", "given"},
         sw \in {"none", "true", "false"},
         sv \in BOOLEAN,
         va \in BOOLEAN}

Init ==
    /\ SharedUnused
    /\ payload \in HandlerPayloads
    /\ task_name = "t1"
    /\ collection_config = None
    /\ item = None
    /\ collection_name = ""
    /\ output = <<>>
    /\ items = <<>>
    /\ pc = "created"
    /\ ret = NoResult
    /\ kwargs \in HandlerKwargs
    /\ task = NoTask
    /\ workdir_exists \in (IF kwargs.workdir = "given" THEN BOOLEAN ELSE {FALSE})
    /\ calls = NoCalls

\* Task.validate of task class cls: the default returns true, the hook of
\* FailValidateTask raises FailedValidation, that of RejectTask returns false
Task_validate(cls) ==
    CASE cls = "FailValidateTask" -> "raise"
      [] cls = "RejectTask"       -> "false"
      [] OTHER                    -> "true"

\* Mutant of ConstructionOutcome: the task's validate hook is not consulted
ConstructionOutcomeWithoutHook(p, kw) ==
    LET checked == validate(p)
    IN  IF Raised(checked) THEN checked ELSE Ok(None)

\* Mutant of ConstructionOutcome: with validation disabled Payload.validate
\* is skipped as well
ConstructionOutcomeSkipsAll(p, kw) ==
    LET checked == validate(p)
        hook    == Task_validate(kw.cls)
    IN  IF kw.skip_validation \/ ~kw.validate THEN Ok(None)
        ELSE IF Raised(checked) THEN checked
        ELSE IF hook = "raise"
        THEN Raise("FailedValidation", "Extra context about what went wrong", "")
        ELSE IF hook = "false"
        THEN Raise("FailedValidation", "", "")
        ELSE Ok(None)

\* The first lines of Task.__init__: Payload.validate, then the task's
\* validate hook unless validation is switched off
ConstructionOutcome(p, kw) ==
    LET checked == validate(p)
        hook    == Task_validate(kw.cls)
    IN  IF Raised(checked) THEN checked
        ELSE IF ~kw.skip_validation /\ kw.validate /\ hook = "raise"
        THEN Raise("FailedValidation", "Extra context about what went wrong", "")
        ELSE IF ~kw.skip_validation /\ kw.validate /\ hook = "false"
        THEN Raise("FailedValidation", "", "")
        ELSE Ok(None)

\* task = cls(payload, **kwargs)
Construct ==
    /\ pc = "created"
    /\ \E checked \in {ConstructionOutcome(payload, kwargs)} :
           IF Raised(checked)
           THEN /\ ret' = checked
                /\ pc' = "raising"
                /\ UNCHANGED <<task, workdir_exists>>
           ELSE /\ task' = Task__init__(kwargs)
                /\ workdir_exists' = TRUE
                /\ ret' = ret
                /\ pc' = "constructed"
    /\ UNCHANGED <<sharedvars, payload, task_name, collection_config, item, collection_name,
                   output, items, kwargs, calls>>

\* task.process(**task.parameters): returns records or raises
Process ==
    /\ pc = "constructed"
    /\ \E params \in {parameters(payload, task_name)} :
           IF Raised(params)
           THEN ret' = params /\ pc' = "raising" /\ UNCHANGED <<output, calls>>
           ELSE /\ calls' = [calls EXCEPT !.process = @ + 1]
                /\ \/ \E out \in ProcessOutputs(payload) :
                          output' = out /\ pc' = "post_process" /\ ret' = ret
                   \/ /\ ret' = Raise("Exception", "process failed", "")
                      /\ pc' = "raising"
                      /\ output' = output
    /\ UNCHANGED <<sharedvars, payload, task_name, collection_config, item, collection_name,
                   items, kwargs, task, workdir_exists>>

\* items.append(task._post_process_item(item)) for the next record
PostProcessItem ==
    /\ pc = "post_process"
    /\ Len(items) < Len(output)
    /\ \E done \in {_post_process_item(kwargs.cls, output[Len(items) + 1])} :
           IF Raised(done)
           THEN ret' = done /\ pc' = "raising" /\ items' = items
           ELSE items' = Append(items, done.val) /\ pc' = pc /\ ret' = ret
    /\ UNCHANGED <<sharedvars, payload, task_name, collection_config, item, collection_name,
                   output, taskvars>>

\* Mutant of WriteBack: the records are written back although some are not
\* post-processed yet
WriteBackEarly ==
    /\ pc = "post_process"
    /\ payload' = DictSet(payload, "features", List(items))
    /\ pc' = "written"
    /\ UNCHANGED <<sharedvars, task_name, collection_config, item, collection_name, output,
                   items, ret, taskvars>>

\* task.payload["features"] = items
WriteBack ==
    /\ pc = "post_process"
    /\ Len(items) = Len(output)
    /\ payload' = DictSet(payload, "features", List(items))
    /\ pc' = "written"
    /\ UNCHANGED <<sharedvars, task_name, collection_config, item, collection_name, output,
                   items, ret, taskvars>>

\* Mutant of AssignCollections: an exception of collection assignment is
\* swallowed and handler goes on to return the payload
AssignCollectionsLenient ==
    /\ pc = "written"
    /\ \E done \in {assign_collections(payload)} :
           /\ payload' = done.payload
           /\ ret' = ret
           /\ pc' = "assigned"
    /\ UNCHANGED <<sharedvars, task_name, collection_config, item, collection_name, output,
                   items, taskvars>>

\* task.assign_collections()
AssignCollections ==
    /\ pc = "written"
    /\ \E done \in {assign_collections(payload)} :
           /\ payload' = done.payload
           /\ IF Raised(done.outcome)
              THEN ret' = done.outcome /\ pc' = "raising"
              ELSE ret' = ret /\ pc' = "assigned"
    /\ UNCHANGED <<sharedvars, task_name, collection_config, item, collection_name, output,
                   items, taskvars>>

\* return task.payload
Return ==
    /\ pc = "assigned"
    /\ ret' = Ok(payload)
    /\ pc' = "returning"
    /\ UNCHANGED <<sharedvars, payload, task_name, collection_config, item, collection_name,
                   output, items, taskvars>>

\* Task.cleanup_workdir: the directory is removed unless it is to be saved or
\* does not exist; a removal that fails is logged as a warning and nothing
\* is raised
cleanup_workdir ==
    LET removes == ~task._save_workdir /\ workdir_exists
    IN  \E removed \in IF removes THEN BOOLEAN ELSE {FALSE} :
            /\ workdir_exists' = (workdir_exists /\ ~removed)
            /\ calls' = [calls EXCEPT
                             !.cleanup_workdir = @ + 1,
                             !.warning = IF removes /\ ~removed THEN @ + 1 ELSE @]

\* Mutant of Finally: no cleanup when handler raises
FinallyOnReturnOnly ==
    /\ pc \in {"returning", "raising"}
    /\ pc' = IF pc = "returning" THEN "done" ELSE "failed"
    /\ IF task.constructed /\ pc = "returning"
       THEN cleanup_workdir
       ELSE UNCHANGED <<workdir_exists, calls>>
    /\ UNCHANGED <<sharedvars, payload, task_name, collection_config, item, collection_name,
                   output, items, ret, kwargs, task>>

\* finally: if task: task.cleanup_workdir(); then handler returns or raises
Finally ==
    /\ pc \in {"returning", "raising"}
    /\ pc' = IF pc = "returning" THEN "done" ELSE "failed"
    /\ IF task.constructed
       THEN cleanup_workdir
       ELSE UNCHANGED <<workdir_exists, calls>>
    /\ UNCHANGED <<sharedvars, payload, task_name, collection_config, item, collection_name,
                   output, items, ret, kwargs, task>>

Next ==
    \/ Construct
    \/ Process
    \/ PostProcessItem
    \/ WriteBack
    \/ AssignCollections
    \/ Return
    \/ Finally

Spec == Init /\ [][Next]_vars

\* Neither collection_matchers nor the legacy mapping is configured
NeitherConfigured == Len(DeclaredMatchers.v) = 0 /\ Len(DeclaredCollections.k) = 0

\* The collection of a record, None when it has none
CollectionOf(doc) == DictGet(doc, "collection", None)

(* C3: a payload that configures neither collection_matchers nor the legacy
   upload_options.collections is legal: Payload.validate() and the
   construction of the task succeed on it (the handler can then fail only in
   the task's own validate hook, in process or in post-processing), and the
   document the handler returns has every record's collection as
   post-processing left it. *)
NeitherConfiguredIsLegal ==
    NeitherConfigured =>
        /\ pc = "failed" =>
               \/ ret.exc = "FailedValidation"
               \/ ret = Raise("Exception", "process failed", "")
               \/ ret.msg = "stac_extensions must be type list"
        /\ pc = "done" =>
               LET features == DictGet(ret.val, "features", EmptyList).v
               IN  /\ Len(features) = Len(items)
                   /\ \A i \in 1..Len(items) :
                          CollectionOf(features[i]) = CollectionOf(items[i])

----------------------------------------------------------------------------
(* Payload shapes: validate and the accessors applied to payloads whose
   fields have the right or the wrong structural type *)

ShapeWorkflowOptions == {Dict(<<"a">>, <<Num(1)>>), Str("w")}

ShapeTasks ==
    {Dict(<<"t1">>, <<Dict(<<"b">>, <<Num(1)>>)>>),
     Dict(<<"t2", "t1">>, <<Str("o2"), Str("o1")>>),
     List(<<Dict(<<"name", "parameters">>, <<Str("t1"), Dict(<<"b">>, <<Num(2)>>)>>),
            Dict(<<"name", "parameters">>, <<Str("t2"), Str("p")>>)>>),
     Str("t")}

ShapeUploadOptions ==
    {Absent,
     Dict(<<"path_template">>, <<Str("/g")>>),
     Dict(<<"path_template", "collections">>,
          <<Str("/g"), Dict(<<"A">>, <<Str("$[?(@.id == 'i1')]")>>)>>),
     Dict(<<"collections">>, <<Str("c")>>),
     Str("u")}

ShapeMatchers ==
    {Absent,
     List(<<Dict(<<"type", "collection_name">>, <<Str("catch_all"), Str("Z")>>)>>),
     List(<<Dict(<<"type", "collection_name">>, <<Str("catch_all"), Str("Z")>>),
            Str("m")>>),
     Str("m")}

ShapeCollectionOptions ==
    {Absent,
     Dict(<<"Z">>, <<Dict(<<"upload_options">>, <<Dict(<<"path_template">>, <<Str("/z")>>)>>)>>),
     Str("o")}

ShapeFeatures == {List(<<>>), Str("f")}

ShapeDefinitions ==
    {DictOfPresent(<<"workflow_options", "tasks", "upload_options",
                     "collection_matchers", "collection_options">>,
                   <<wo, tasks, uo, ms, co>>) :
         wo \in ShapeWorkflowOptions, tasks \in ShapeTasks,
         uo \in ShapeUploadOptions, ms \in ShapeMatchers,
         co \in ShapeCollectionOptions}

\* A second element of the process list, which differs from every first one
OtherDefinition == Dict(<<"workflow_options">>, <<Dict(<<"other">>, <<Num(2)>>)>>)

\* The forms of the process field: absent, an empty list, a list of one or
\* two definitions, a bare dictionary, and two wrong shapes
ProcessForms ==
    {Absent, EmptyList, Str("p")}
      \cup {List(<<d>>) : d \in ShapeDefinitions}
      \cup {List(<<d, OtherDefinition>>) : d \in ShapeDefinitions}
      \cup ShapeDefinitions
      \cup {List(<<Str("p"), d>>) : d \in {OtherDefinition}}

ShapePayloads ==
    {DictOfPresent(<<"process", "features">>, <<process, features>>) :
         process \in ProcessForms, features \in ShapeFeatures}

\* The accessors of Payload that take no argument
AccessorNames ==
    {"process_definition", "workflow_options", "task_options_dict",
     "items_as_dicts", "global_upload_options", "collection_mapping",
     "collection_matchers", "collection_options"}

\* The property of payload p that is called name
Read(name, p) ==
    CASE name = "process_definition"    -> process_definition(p)
      [] name = "workflow_options"      -> workflow_options(p)
      [] name = "task_options_dict"     -> task_options_dict(p)
      [] name = "items_as_dicts"        -> items_as_dicts(p)
      [] name = "global_upload_options" -> global_upload_options(p)
      [] name = "collection_mapping"    -> collection_mapping(p)
      [] name = "collection_matchers"   -> collection_matchers(p)
      [] name = "collection_options"    -> collection_options(p)

InitPayload ==
    /\ SharedUnused
    /\ payload \in ShapePayloads
    /\ task_name \in {"t1", "t3"}
    /\ collection_config = None
    /\ item = None
    /\ collection_name \in {"Z", "other"}
    /\ output = <<>>
    /\ items = <<>>
    /\ TaskUnused
    /\ pc = "created"
    /\ ret = NoResult

\* payload.validate()
ValidatePayload ==
    /\ pc = "created"
    /\ ret' = validate(payload)
    /\ pc' = "validated"
    /\ UNCHANGED <<sharedvars, taskvars, payload, task_name, collection_config, item, collection_name, output, items>>

\* One of the properties of the payload is read
ReadAccessor ==
    /\ pc = "created"
    /\ \E name \in AccessorNames :
           /\ ret' = Read(name, payload)
           /\ pc' = name
    /\ UNCHANGED <<sharedvars, taskvars, payload, task_name, collection_config, item, collection_name, output, items>>

\* payload.get_collection_options(name), payload.get_collection_upload_options(name)
ReadCollectionOptions ==
    /\ pc = "created"
    /\ \E name \in {"get_collection_options", "upload_options"} :
           /\ ret' = IF name = "get_collection_options"
                     THEN get_collection_options(payload, collection_name)
                     ELSE get_collection_upload_options(payload, collection_name)
           /\ pc' = name
    /\ UNCHANGED <<sharedvars, taskvars, payload, task_name, collection_config, item, collection_name, output, items>>

\* task.task_options, task.parameters
ResolveParameters ==
    /\ pc = "created"
    /\ \E name \in {"task_options", "parameters"} :
           /\ ret' = IF name = "task_options"
                     THEN task_options(payload, task_name)
                     ELSE parameters(payload, task_name)
           /\ pc' = name
    /\ UNCHANGED <<sharedvars, taskvars, payload, task_name, collection_config, item, collection_name, output, items>>

NextPayload ==
    \/ ValidatePayload
    \/ ReadAccessor
    \/ ReadCollectionOptions
    \/ ResolveParameters

SpecPayload == InitPayload /\ [][NextPayload]_vars

----------------------------------------------------------------------------
(* What a payload declares, whatever the form of its process field *)

DeclaredProcess == DictGet(payload, "process", EmptyList)

ProcessWrongShape ==
    \/ ~(IsDict(DeclaredProcess) \/ IsList(DeclaredProcess))
    \/ /\ IsList(DeclaredProcess)
       /\ Len(DeclaredProcess.v) > 0
       /\ ~IsDict(DeclaredProcess.v[1])

\* The definition the payload declares, when process has the right shape
RawDefinition ==
    IF IsDict(DeclaredProcess) THEN DeclaredProcess
    ELSE IF Len(DeclaredProcess.v) = 0 THEN EmptyDict
    ELSE DeclaredProcess.v[1]

RawField(name, default) == DictGet(RawDefinition, name, default)

\* The entries of tasks with the wrong shape: the names of the mapping form
\* whose options are no mapping, the entries of the list form whose
\* parameters are no mapping
WrongTaskEntries ==
    LET tasks == RawField("tasks", EmptyDict)
    IN  IF IsDict(tasks) THEN {i \in 1..Len(tasks.k) : ~IsDict(tasks.v[i])}
        ELSE IF IsList(tasks)
        THEN {i \in 1..Len(tasks.v) :
                  ~IsDict(DictGet(tasks.v[i], "parameters", EmptyDict))}
        ELSE {}

WrongTaskName ==
    LET tasks == RawField("tasks", EmptyDict)
        i     == Least(WrongTaskEntries)
    IN  IF IsDict(tasks) THEN tasks.k[i] ELSE DictGet(tasks.v[i], "name", None).v[1]

\* The shape violations of the payload, as [field, bad], in the order
\* validate() looks at the fields
ShapeViolations ==
    LET tasks == RawField("tasks", EmptyDict)
        uo    == RawField("upload_options", EmptyDict)
        ms    == RawField("collection_matchers", EmptyList)
    IN  << [field |-> "workflow_options",
            bad |-> ~IsDict(RawField("workflow_options", EmptyDict))],
           [field |-> "tasks",
            bad |-> ~(IsDict(tasks) \/ IsList(tasks))],
           [field |-> "task",
            bad |-> WrongTaskEntries # {}],
           [field |-> "upload_options",
            bad |-> ~IsDict(uo)],
           [field |-> "collections",
            bad |-> IsDict(uo) /\ ~IsDict(DictGet(uo, "collections", EmptyDict))],
           [field |-> "features",
            bad |-> ~IsList(DictGet(payload, "features", EmptyList))],
           [field |-> "collection_matchers",
            bad |-> ~IsList(ms)],
           [field |-> "matcher",
            bad |-> IsList(ms) /\ \E i \in 1..Len(ms.v) : ~IsDict(ms.v[i])],
           [field |-> "collection_options",
            bad |-> ~IsDict(RawField("collection_options", EmptyDict))] >>

WrongFields ==
    IF ProcessWrongShape THEN {0}
    ELSE {i \in 1..Len(ShapeViolations) : ShapeViolations[i].bad}

\* The text with which a shape error names a field
FieldText(field) ==
    CASE field = "process"             -> "'process'"
      [] field = "workflow_options"    -> "'workflow_options'"
      [] field = "tasks"               -> "'tasks'"
      [] field = "task"                -> "for task"
      [] field = "upload_options"      -> "'upload_options'"
      [] field = "collections"         -> "'collections'"
      [] field = "features"            -> "'features'"
      [] field = "collection_matchers" -> "'collection_matchers'"
      [] field = "matcher"             -> "'collection_matchers'"
      [] field = "collection_options"  -> "'collection_options'"

\* text occurs in the message msg
RECURSIVE OccursFrom(_, _, _)
OccursFrom(text, msg, i) ==
    IF i + Len(text) - 1 > Len(msg) THEN FALSE
    ELSE SubSeq(msg, i, i + Len(text) - 1) = text \/ OccursFrom(text, msg, i + 1)

\* The field of the first shape violation
FirstWrongField ==
    IF ProcessWrongShape THEN "process"
    ELSE ShapeViolations[Least(WrongFields)].field

(* C11: validate() raises a type error naming the offending field whenever
   process, workflow_options, tasks (or an entry of it, or a legacy entry's
   parameters), upload_options, upload_options.collections,
   collection_matchers (or one of its elements), collection_options or
   features has the wrong structural type; the error is that of the first
   violation, and it is raised in preference to the mutual-exclusion and the
   missing-upload-options errors. *)
ShapeErrorFirst ==
    (pc = "validated" /\ WrongFields # {}) =>
        /\ ret.exc = "TypeError"
        /\ OccursFrom(FieldText(FirstWrongField), ret.msg, 1)
        /\ FirstWrongField = "task" => ret.arg = WrongTaskName
        /\ \A i \in WrongFields :
               (i > Least(WrongFields)
                  /\ FieldText(ShapeViolations[i].field) # FieldText(FirstWrongField))
                   => ~OccursFrom(FieldText(ShapeViolations[i].field), ret.msg, 1)

\* C11 witness: a payload was validated that has both collection
\* configurations, no upload options for Z of its own, and features and
\* collection_options of the wrong shape: the error names features
ShapeErrorFirstWitness ==
    /\ pc = "validated"
    /\ ~ProcessWrongShape
    /\ WrongFields = {6, 9}
    /\ Len(RawField("collection_matchers", EmptyList).v) > 0
    /\ Truthy(DictGet(RawField("upload_options", EmptyDict), "collections", EmptyDict))
    /\ ret = Raise("TypeError", "unable to parse 'features': must be type list", "")

\* The payload of the current state with its process wrapped in a list
WrappedPayload == DictSet(payload, "process", List(<<DeclaredProcess>>))

\* What the call the current state has made gives on payload p
SameCallOn(p) ==
    CASE pc = "validated"              -> validate(p)
      [] pc = "get_collection_options" -> get_collection_options(p, collection_name)
      [] pc = "upload_options"         -> get_collection_upload_options(p, collection_name)
      [] pc = "task_options"           -> task_options(p, task_name)
      [] pc = "parameters"             -> parameters(p, task_name)
      [] OTHER                         -> Read(pc, p)

(* C12: process_definition returns the empty mapping when process is absent
   or an empty list, the first element when process is a list (later
   elements are ignored), and the dictionary itself when process is a bare
   dictionary; a payload with process = D gives, for every accessor, for
   validate() and for parameter resolution, the result of the same payload
   with process = [D]. *)
BareProcessEquivalent ==
    /\ pc = "process_definition" =>
           /\ (~HasKey(payload, "process") \/ DeclaredProcess = EmptyList)
                  => ret = Ok(EmptyDict)
           /\ (IsList(DeclaredProcess) /\ Len(DeclaredProcess.v) > 0
                 /\ IsDict(DeclaredProcess.v[1]))
                  => ret = Ok(DeclaredProcess.v[1])
           /\ IsDict(DeclaredProcess) => ret = Ok(DeclaredProcess)
    /\ (pc # "created" /\ IsDict(DeclaredProcess)) => ret = SameCallOn(WrappedPayload)

\* C12 witness: a payload whose process is a bare dictionary with tasks and
\* workflow options was validated without error
BareProcessEquivalentWitness ==
    /\ pc = "validated"
    /\ IsDict(DeclaredProcess)
    /\ HasKey(DeclaredProcess, "tasks")
    /\ HasKey(DeclaredProcess, "workflow_options")
    /\ ret = Ok(None)

\* C12 witness, second case: parameters were resolved from a process list of
\* two definitions, and are those of the first
ProcessListFirstWitness ==
    /\ pc = "parameters"
    /\ IsList(DeclaredProcess)
    /\ Len(DeclaredProcess.v) = 2
    /\ ret = Ok(Dict(<<"a", "b">>, <<Num(1), Num(1)>>))

----------------------------------------------------------------------------
(* The task lifecycle *)

\* The task's validate hook is called and does not return true
HookRejects ==
    /\ ~kwargs.skip_validation /\ kwargs.validate
    /\ kwargs.cls \in {"FailValidateTask", "RejectTask"}

(* C13: if Payload.validate() raises, or the task's validate hook returns
   false or raises while validation is enabled, the construction of the task
   fails with a validation error and process is never invoked in that
   invocation of handler. *)
FailedValidationNeverProcesses ==
    (pc # "created" /\ (Raised(validate(payload)) \/ HookRejects)) =>
        /\ ~task.constructed
        /\ pc \in {"raising", "failed"}
        /\ calls.process = 0
        /\ output = <<>>
        /\ IF Raised(validate(payload)) THEN ret = validate(payload)
           ELSE ret.exc = "FailedValidation"

\* C13 witness: the handler has exited after the validate hook of the task
\* rejected a payload that Payload.validate accepts
FailedValidationNeverProcessesWitness ==
    /\ pc = "failed"
    /\ ~Raised(validate(payload))
    /\ HookRejects
    /\ kwargs.cls = "RejectTask"
    /\ ret.exc = "FailedValidation"
    /\ calls.process = 0

\* handler has returned or raised
Exited == pc \in {"done", "failed"}

\* The removal of the working directory was tried and failed
RemovalFailed == calls.warning > 0

(* C14 as claimed: in every invocation of handler that constructed the task,
   cleanup_workdir runs exactly once, on every exit path and not before the
   exit, so that when handler exits a working directory whose keep flag is
   false no longer exists. *)
CleanupOnceAndRemoved ==
    task.constructed =>
        /\ calls.cleanup_workdir = (IF Exited THEN 1 ELSE 0)
        /\ (Exited /\ ~task._save_workdir) => ~workdir_exists

(* C14 as amended: in every invocation of handler that constructed the task,
   cleanup_workdir runs exactly once, on every exit path and not before the
   exit; when handler exits, a working directory whose keep flag is false no
   longer exists unless its removal failed, which is logged as a warning and
   changes nothing in what handler returns or raises. *)
CleanupOnceOnEveryExit ==
    /\ task.constructed =>
           /\ calls.cleanup_workdir = (IF Exited THEN 1 ELSE 0)
           /\ (Exited /\ ~task._save_workdir /\ ~RemovalFailed) => ~workdir_exists
           /\ (Exited /\ RemovalFailed) => (workdir_exists /\ ~task._save_workdir)
    /\ pc = "done" => ret.exc = "none"
    /\ pc = "failed" => Raised(ret)
    /\ ~task.constructed => calls.cleanup_workdir = 0

\* C14 witness: handler has exited with the exception of collection
\* assignment, after one cleanup that removed the working directory
CleanupOnceOnEveryExitWitness ==
    /\ pc = "failed"
    /\ task.constructed
    /\ ret.msg = "Unknown matcher type"
    /\ ~task._save_workdir
    /\ calls.cleanup_workdir = 1
    /\ ~workdir_exists

\* The keep flag the caller's arguments ask for
ExpectedKeep ==
    CASE kwargs.save_workdir = "true"  -> TRUE
      [] kwargs.save_workdir = "false" -> FALSE
      [] OTHER                         -> kwargs.workdir = "given"

(* C15 as claimed: the keep flag equals the caller's save_workdir when it is
   given; when it is not given it is keep for a caller-supplied directory and
   discard for an auto-created temporary one; after cleanup_workdir the
   directory exists if and only if the keep flag is true. *)
KeepFlagAndExistence ==
    task.constructed =>
        /\ task._save_workdir = ExpectedKeep
        /\ calls.cleanup_workdir > 0 => (workdir_exists <=> task._save_workdir)

(* C15 as amended: the keep flag equals the caller's save_workdir when it is
   given; when it is not given it is keep for a caller-supplied directory and
   discard for an auto-created temporary one; after cleanup_workdir the
   directory exists if the keep flag is true, and with a false keep flag it
   exists only if its removal failed (which cleanup_workdir logs as a
   warning, without raising). *)
KeepFlagAndExistenceUnlessFailed ==
    task.constructed =>
        /\ task._save_workdir = ExpectedKeep
        /\ calls.cleanup_workdir = 0 => workdir_exists
        /\ calls.cleanup_workdir > 0 =>
               (workdir_exists <=> (task._save_workdir \/ RemovalFailed))
        /\ RemovalFailed => ~task._save_workdir

\* C15 witness: a caller-supplied directory without save_workdir was kept,
\* and an explicit save_workdir=False would have been obeyed
KeepFlagWitness ==
    /\ Exited
    /\ task.constructed
    /\ kwargs.workdir = "given"
    /\ kwargs.save_workdir = "none"
    /\ task._save_workdir
    /\ calls.cleanup_workdir = 1
    /\ workdir_exists

\* The records of the document handler returned
ReturnedFeatures == DictGet(ret.val, "features", EmptyList).v

Extensions(doc) == DictGet(doc, "stac_extensions", None)

\* q is in ascending order
Ascending(q) == \A j, k \in 1..Len(q) : j < k => ~StrLess(q[k], q[j])

\* q and r hold the same elements, each as often
SameElements(q, r) ==
    /\ Len(q) = Len(r)
    /\ \A x \in {q[j] : j \in 1..Len(q)} \cup {r[j] : j \in 1..Len(r)} :
           Cardinality({j \in 1..Len(q) : q[j] = x})
               = Cardinality({j \in 1..Len(r) : r[j] = x})

\* Record i of process' output as the post-process hook of the task leaves it
Hooked(i) == post_process_item(kwargs.cls, output[i])

\* The records of process' output that carry, after the hook, a
\* stac_extensions that is no list
NonListExtensions ==
    {i \in 1..Len(output) :
         /\ ~Raised(Hooked(i))
         /\ HasKey(Hooked(i).val, "stac_extensions")
         /\ ~IsList(Extensions(Hooked(i).val))}

(* C16: in the document handler returns, every record that carries
   stac_extensions has that list in ascending order, with the entries process
   and the post-process hook put there in whatever order; a record whose
   stac_extensions is no list makes the invocation fail with a type error;
   a record without the field is left without it. *)
ExtensionsSorted ==
    /\ pc = "done" =>
           /\ Len(ReturnedFeatures) = Len(output)
           /\ \A i \in 1..Len(output) :
                  /\ HasKey(ReturnedFeatures[i], "stac_extensions")
                         <=> HasKey(Hooked(i).val, "stac_extensions")
                  /\ HasKey(ReturnedFeatures[i], "stac_extensions") =>
                         /\ IsList(Extensions(ReturnedFeatures[i]))
                         /\ Ascending(Extensions(ReturnedFeatures[i]).v)
                         /\ SameElements(Extensions(ReturnedFeatures[i]).v,
                                         Extensions(Hooked(i).val).v)
    /\ NonListExtensions # {} =>
           /\ pc \notin {"written", "assigned", "returning", "done"}
           /\ (pc \in {"raising", "failed"} /\ Len(items) + 1 \in NonListExtensions) =>
                  ret = Raise("TypeError", "stac_extensions must be type list",
                              Extensions(Hooked(Len(items) + 1).val).t)

\* C16 witness: handler returned a record whose extensions process gave as
\* e2, e1 and in front of which the hook put zzz
ExtensionsSortedWitness ==
    /\ pc = "done"
    /\ kwargs.cls = "PostProcessTask"
    /\ \E i \in 1..Len(output) :
           /\ Extensions(output[i]) = List(<<Str("e2"), Str("e1")>>)
           /\ Extensions(ReturnedFeatures[i]) = List(<<Str("e1"), Str("e2"), Str("zzz")>>)

----------------------------------------------------------------------------
(* Collection assignment: Task.assign_collections applied, once and again, to
   the payload of a task. The payload is the task's own mutable document, so
   it is whatever process left there: both configurations may be present. *)

AssignRecords ==
    {Dict(<<"id">>, <<Str("i1")>>),
     Dict(<<"id", "collection">>, <<Str("i1"), Str("A")>>),
     Dict(<<"id", "collection">>, <<Str("i2"), Str("B")>>),
     Dict(<<"id", "properties">>, <<Str("i2"), Dict(<<"p">>, <<Num(1)>>)>>),
     Dict(<<"collection", "id">>, <<Str("C"), Str("i2")>>)}

AssignMatchers ==
    {Dict(<<"type", "pattern", "collection_name">>, <<Str("jsonpath"), Str(e[1]), Str(e[2])>>) :
         e \in {<<"$[?(@.id == 'i1')]", "A">>,
                <<"$[?(@.collection == 'A')]", "B">>,
                <<"$[?(@.collection == 'B')]", "A">>}}
      \cup {Dict(<<"type", "collection_name">>, <<Str("catch_all"), Str("B")>>),
            Dict(<<"type", "collection_name">>, <<Str("bogus"), Str("A")>>)}

AssignMappings ==
    {Absent,
     Dict(<<"A">>, <<Str("$[?(@.id == 'i1')]")>>),
     Dict(<<"B", "A">>, <<Str("$[?(@.collection == 'A')]"), Str("$[?(@.collection == 'B')]")>>),
     Dict(<<"C">>, <<Str("$[*].properties.*")>>)}

AssignPayloads ==
    {PayloadOf(DictOfPresent(<<"upload_options", "collection_matchers">>,
                             <<DictOfPresent(<<"path_template", "collections">>,
                                             <<Str("/g"), mapping>>),
                               ms>>),
               features) :
         mapping \in AssignMappings,
         ms \in {Absent} \cup {List(q) : q \in SeqsUpTo(AssignMatchers, MaxMatchers)},
         features \in SeqsUpTo(AssignRecords, MaxItems)}

\* items holds the records before the first run, output those after it
InitAssign ==
    /\ SharedUnused
    /\ payload \in AssignPayloads
    /\ task_name = "t1"
    /\ collection_config = None
    /\ item = None
    /\ collection_name = ""
    /\ output = <<>>
    /\ items = DictGet(payload, "features", EmptyList).v
    /\ TaskUnused
    /\ pc = "created"
    /\ ret = NoResult

\* task.assign_collections()
Assign ==
    /\ pc = "created"
    /\ \E done \in {assign_collections(payload)} :
           /\ payload' = done.payload
           /\ output' = DictGet(done.payload, "features", EmptyList).v
           /\ ret' = done.outcome
           /\ pc' = IF Raised(done.outcome) THEN "failed" ELSE "assigned"
    /\ UNCHANGED <<sharedvars, taskvars, task_name, collection_config, item, collection_name, items>>

\* task.assign_collections(), a second time
AssignAgain ==
    /\ pc = "assigned"
    /\ \E done \in {assign_collections(payload)} :
           /\ payload' = done.payload
           /\ ret' = done.outcome
           /\ pc' = IF Raised(done.outcome) THEN "failed_twice" ELSE "assigned_twice"
    /\ UNCHANGED <<sharedvars, taskvars, task_name, collection_config, item, collection_name,
                   items, output>>

NextAssign == Assign \/ AssignAgain

SpecAssign == InitAssign /\ [][NextAssign]_vars

\* The records of the payload as they are now
Features == DictGet(payload, "features", EmptyList).v

\* The configuration the payload declares for collection assignment: the
\* matcher list when it is non-empty, the legacy mapping otherwise
DeclaredConfig ==
    LET ms == RawField("collection_matchers", EmptyList)
    IN  IF Len(ms.v) > 0 THEN ms
        ELSE DictGet(RawField("upload_options", EmptyDict), "collections", EmptyDict)

\* The name the declared configuration resolves record doc to, None if none
Resolved(doc) == find_collection(DeclaredConfig, doc).val

\* after is record before with nothing but its collection changed
OnlyCollectionChanged(before, after) ==
    /\ \A key \in (Keys(before) \cup Keys(after)) \ {"collection"} :
           /\ HasKey(before, key) /\ HasKey(after, key)
           /\ DictGet(before, key, None) = DictGet(after, key, None)
    /\ HasKey(before, "collection") => HasKey(after, "collection")

(* C17: assign_collections uses collection_matchers when that list is
   non-empty and the legacy mapping otherwise; for each record of features it
   sets collection to the resolved name when one is found and leaves the
   record's existing or absent collection as it is when none is found; no
   other field is modified, and the number and the order of the records are
   unchanged. *)
AssignmentFrame ==
    pc = "assigned" =>
        /\ Len(output) = Len(items)
        /\ \A i \in 1..Len(items) :
               /\ OnlyCollectionChanged(items[i], output[i])
               /\ IF Resolved(items[i]) # None
                  THEN CollectionOf(output[i]) = Resolved(items[i])
                  ELSE /\ CollectionOf(output[i]) = CollectionOf(items[i])
                       /\ HasKey(output[i], "collection") <=> HasKey(items[i], "collection")

\* C17 witness: with both configurations present the matcher list was used;
\* of two records, one got the collection of the matcher and the other, which
\* no matcher matches, kept its own
AssignmentFrameWitness ==
    /\ pc = "assigned"
    /\ Len(RawField("collection_matchers", EmptyList).v) > 0
    /\ Len(DictGet(RawField("upload_options", EmptyDict), "collections", EmptyDict).k) > 0
    /\ Len(items) = 2
    /\ Resolved(items[1]) = Str("A") /\ CollectionOf(items[1]) = None
    /\ CollectionOf(output[1]) = Str("A")
    /\ Resolved(items[2]) = None /\ CollectionOf(items[2]) = Str("B")
    /\ output[2] = items[2]
    /\ _find_collection_from_mapping(
           DictGet(RawField("upload_options", EmptyDict), "collections", EmptyDict),
           items[2]) # Ok(None)

\* The expressions of the declared configuration
DeclaredExpressions ==
    IF IsList(DeclaredConfig)
    THEN {DictGet(DeclaredConfig.v[i], "pattern", Str("")).v[1] : i \in 1..Len(DeclaredConfig.v)}
    ELSE {DeclaredConfig.v[i].v[1] : i \in 1..Len(DeclaredConfig.v)}

\* Some expression of the declared configuration reads the collection field
ReadsCollection ==
    \E e \in DeclaredExpressions : JsonPathParse(e).field = "collection"

(* C18 as claimed: assign_collections is idempotent: a second run on the
   assigned document, with the configuration unchanged, leaves every record's
   collection as the first run left it, for every matcher configuration,
   those whose expressions read the record's collection included. *)
AssignmentIdempotent ==
    /\ pc # "failed_twice"
    /\ pc = "assigned_twice" =>
           /\ Len(Features) = Len(output)
           /\ \A i \in 1..Len(output) : CollectionOf(Features[i]) = CollectionOf(output[i])

(* C18 as amended: a second run of assign_collections on the assigned
   document, with the configuration unchanged, leaves every record's
   collection as the first run left it, for every configuration none of
   whose expressions reads the record's collection field; with an expression
   that reads it the second run can assign another collection, or fail. *)
AssignmentIdempotentUnlessReadsCollection ==
    ~ReadsCollection =>
        /\ pc # "failed_twice"
        /\ pc = "assigned_twice" =>
               /\ Len(Features) = Len(output)
               /\ \A i \in 1..Len(output) : Features[i] = output[i]

\* C18 witness: the second run went over a record to which the first run had
\* given a collection other than its own
AssignmentIdempotentWitness ==
    /\ pc = "assigned_twice"
    /\ ~ReadsCollection
    /\ IsList(DeclaredConfig)
    /\ \E i \in 1..Len(items) :
           /\ CollectionOf(items[i]) = Str("A")
           /\ CollectionOf(output[i]) = Str("B")
           /\ Features[i] = output[i]

----------------------------------------------------------------------------
(* The outcome of handler *)

(* C19: there is no partial success. handler returns a document only if
   every record process returned has been post-processed and has passed
   through collection assignment; if process, the post-processing of a record
   or the collection resolution of a record raises, handler raises that same
   exception to its caller and returns no document. *)
NoPartialSuccess ==
    /\ [](pc = "done" =>
              /\ ret = Ok(payload)
              /\ Len(items) = Len(output)
              /\ Len(ReturnedFeatures) = Len(output)
              /\ \A i \in 1..Len(output) :
                     /\ _post_process_item(kwargs.cls, output[i]) = Ok(items[i])
                     /\ OnlyCollectionChanged(items[i], ReturnedFeatures[i])
                     /\ ~Raised(find_collection(DeclaredConfig, items[i]))
                     /\ (Resolved(items[i]) # None =>
                            CollectionOf(ReturnedFeatures[i]) = Resolved(items[i])))
    /\ [](pc \in {"raising", "failed"} => (Raised(ret) /\ ret.val = None))
    /\ []((task.constructed /\ pc \in {"raising", "failed"}) =>
              \/ ret = Raise("Exception", "process failed", "")
              \/ /\ Len(items) < Len(output)
                 /\ ret = _post_process_item(kwargs.cls, output[Len(items) + 1])
              \/ /\ Len(items) = Len(output)
                 /\ \E i \in 1..Len(items) :
                        ret = find_collection(DeclaredConfig, items[i]))
    /\ [][pc = "raising" => (pc' = "failed" /\ ret' = ret)]_vars

\* C19 witness: handler raised the exception of the collection resolution of
\* the second record, after the first record had got its collection
NoPartialSuccessWitness ==
    /\ pc = "failed"
    /\ Len(items) = 2
    /\ CollectionOf(items[1]) = None
    /\ CollectionOf(Features[1]) = Str("A")
    /\ ret = Raise("ValueError", "Unknown matcher type", "bogus")
    /\ ret = find_collection(DeclaredConfig, items[2])

----------------------------------------------------------------------------
(* Upload: Task.upload_item_assets_to_s3 and Task.upload_item_to_s3 applied
   to an item by a constructed task *)

\* The current time at the call that makes the n-th write to the URL
Now(n) == Str("t" \o ToString(n))

\* str.rstrip(ch)
RECURSIVE rstrip(_, _)
rstrip(s, ch) ==
    IF Len(s) > 0 /\ SubSeq(s, Len(s), Len(s)) = ch
    THEN rstrip(SubSeq(s, 1, Len(s) - 1), ch)
    ELSE s

\* LayoutTemplate(template).substitute(item) for the variables ${id} and
\* ${collection}; "" stands for a variable the item cannot resolve
RECURSIVE LayoutSubstitute(_, _, _)
LayoutSubstitute(template, id, collection) ==
    IF Len(template) = 0 THEN ""
    ELSE IF Len(template) >= 5 /\ SubSeq(template, 1, 5) = "${id}"
    THEN id \o LayoutSubstitute(SubSeq(template, 6, Len(template)), id, collection)
    ELSE IF Len(template) >= 13 /\ SubSeq(template, 1, 13) = "${collection}"
    THEN collection \o LayoutSubstitute(SubSeq(template, 14, Len(template)), id, collection)
    ELSE SubSeq(template, 1, 1)
           \o LayoutSubstitute(SubSeq(template, 2, Len(template)), id, collection)

\* The URL of the item's JSON: f"{path_template.rstrip('/')}/{item.id}.json"
\* with the item's fields substituted
ItemUrl(path_template, doc) ==
    Str(LayoutSubstitute(rstrip(path_template, "/") \o "/" \o DictGet(doc, "id", None).v[1] \o ".json",
                         DictGet(doc, "id", None).v[1],
                         IF DictGet(doc, "collection", None) = None THEN ""
                         ELSE DictGet(doc, "collection", None).v[1]))

\* stactask.asset_io.upload_item_assets_to_s3, of which only the call is in
\* the source: the named assets of the item (all of them when assets is
\* None, here the record with all = TRUE) are written to storage and their hrefs point there afterwards.
\* Gives the item and the number of storage calls.
asset_io_upload_item_assets_to_s3(doc, assets) ==
    LET held     == DictGet(doc, "assets", EmptyDict)
        uploaded == {i \in 1..Len(held.k) : assets.all \/ held.k[i] \in assets.keys}
    IN  [outcome |-> Ok(DictSet(doc, "assets",
                                Dict(held.k,
                                     [i \in 1..Len(held.k) |->
                                          IF i \in uploaded
                                          THEN Dict(<<"href">>, <<Str("s3://bucket/asset")>>)
                                          ELSE held.v[i]]))),
         storage |-> Cardinality(uploaded)]

\* item.collection_id as a collection name ("" for None)
CollectionId(doc) ==
    LET c == DictGet(doc, "collection", None)
    IN  IF c = None THEN "" ELSE c.v[1]

\* Task.upload_item_assets_to_s3 of task t with payload p
upload_item_assets_to_s3(t, p, doc, assets) ==
    IF t._upload
    THEN LET upload_options == get_collection_upload_options(p, CollectionId(doc))
         IN  IF Raised(upload_options) THEN [outcome |-> upload_options, storage |-> 0]
             ELSE asset_io_upload_item_assets_to_s3(doc, assets)
    ELSE [outcome |-> Ok(doc), storage |-> 0]

\* Mutant of _update_item_timestamps: the item's own created wins over the
\* stored item's
_update_item_timestamps_own_first(doc, existing, now) ==
    LET properties == DictGet(doc, "properties", EmptyDict)
        own        == DictGet(properties, "created", None)
        created    == IF own = None /\ existing # None
                      THEN DictGet(DictGet(existing, "properties", EmptyDict), "created", None)
                      ELSE own
    IN  DictSet(doc, "properties",
                DictSet(DictSet(properties, "created",
                                IF created = None THEN now ELSE created),
                        "updated", now))

\* Task._update_item_timestamps: existing is the item stored at the URL, None
\* if there is none, now the current time
_update_item_timestamps(doc, existing, now) ==
    LET properties == DictGet(doc, "properties", EmptyDict)
        own        == DictGet(properties, "created", None)
        created    == IF existing # None
                      THEN DictGet(DictGet(existing, "properties", EmptyDict), "created", None)
                      ELSE own
    IN  DictSet(doc, "properties",
                DictSet(DictSet(properties, "created",
                                IF created = None THEN now ELSE created),
                        "updated", now))

\* The elements of q that satisfy keep, in order
RECURSIVE SelectLinks(_, _)
SelectLinks(q, rels) ==
    IF Len(q) = 0 THEN <<>>
    ELSE LET rest == SelectLinks(Tail(q), rels)
         IN  IF DictGet(Head(q), "rel", None).v[1] \in rels THEN rest
             ELSE <<Head(q)>> \o rest

\* Mutant of _update_item_links: the links the item has are all kept
_update_item_links_append_only(doc, url) ==
    LET links == DictGet(doc, "links", EmptyList).v
    IN  DictSet(doc, "links",
                List(links \o <<Dict(<<"rel", "target">>, <<Str("canonical"), url>>),
                               Dict(<<"rel", "target">>, <<Str("self"), url>>)>>))

\* Task._update_item_links
_update_item_links(doc, url) ==
    LET links == DictGet(doc, "links", EmptyList).v
    IN  DictSet(doc, "links",
                List(SelectLinks(links, {"self", "canonical"})
                       \o <<Dict(<<"rel", "target">>, <<Str("canonical"), url>>),
                            Dict(<<"rel", "target">>, <<Str("self"), url>>)>>))

\* Mutant of upload_item_to_s3: the stored item is read and the timestamps
\* are updated before the path template is checked
upload_item_to_s3_checks_late(t, p, doc, existing, now) ==
    IF ~t._upload THEN [outcome |-> Ok(doc), storage |-> 0, doc |-> doc]
    ELSE LET upload_options == get_collection_upload_options(p, CollectionId(doc))
             stamped        == _update_item_timestamps(doc, existing, now)
             reads          == IF existing = None THEN 1 ELSE 2
         IN  IF Raised(upload_options)
             THEN [outcome |-> upload_options, storage |-> 0, doc |-> doc]
             ELSE IF ~Truthy(DictGet(upload_options.val, "path_template", None))
             THEN [outcome |-> Raise("ValueError",
                                     "Missing required 'path_template' in upload_options for collection",
                                     CollectionId(doc)),
                   storage |-> reads, doc |-> stamped]
             ELSE LET uploaded == _update_item_links(
                                      stamped,
                                      ItemUrl(DictGet(upload_options.val, "path_template",
                                                      None).v[1], doc))
                  IN  [outcome |-> Ok(uploaded), storage |-> reads + 1, doc |-> uploaded]

\* Task.upload_item_to_s3 of task t with payload p; existing is the item
\* stored at the URL. read_s3_item_json asks the storage whether the item
\* exists and reads it if so; upload_item_json_to_s3 writes once. The item is
\* changed in place: doc is the item as the call leaves it, also when it
\* raises.
upload_item_to_s3(t, p, doc, existing, now) ==
    IF ~t._upload THEN [outcome |-> Ok(doc), storage |-> 0, doc |-> doc]
    ELSE LET upload_options == get_collection_upload_options(p, CollectionId(doc))
         IN  IF Raised(upload_options)
             THEN [outcome |-> upload_options, storage |-> 0, doc |-> doc]
             ELSE IF ~Truthy(DictGet(upload_options.val, "path_template", None))
             THEN [outcome |-> Raise("ValueError",
                                     "Missing required 'path_template' in upload_options for collection",
                                     CollectionId(doc)),
                   storage |-> 0, doc |-> doc]
             ELSE LET uploaded == _update_item_links(
                                      _update_item_timestamps(doc, existing, now),
                                      ItemUrl(DictGet(upload_options.val, "path_template",
                                                      None).v[1], doc))
                  IN  [outcome |-> Ok(uploaded),
                       storage |-> (IF existing = None THEN 1 ELSE 2) + 1,
                       doc     |-> uploaded]

UploadItems ==
    {Dict(<<"id", "collection", "properties", "links", "assets">>,
          <<Str("i1"), coll, properties, List(links), assets>>) :
         coll \in {None, Str("c1")},
         properties \in {EmptyDict, Dict(<<"created", "updated">>, <<Str("t0"), Str("t0")>>)},
         links \in {<<>>,
                    <<Dict(<<"rel", "target">>, <<Str("self"), Str("/old")>>),
                      Dict(<<"rel", "target">>, <<Str("derived_from"), Str("/src")>>)>>},
         assets \in {EmptyDict,
                     Dict(<<"a", "b">>, <<Dict(<<"href">>, <<Str("/workdir/a")>>),
                                          Dict(<<"href">>, <<Str("s3://bucket/b")>>)>>)}}

\* What the storage holds at the item's URL
StoredItems ==
    {None,
     Dict(<<"id", "properties">>, <<Str("i1"), EmptyDict>>),
     Dict(<<"id", "properties">>, <<Str("i1"), Dict(<<"created">>, <<Str("t00")>>)>>)}

\* Payloads a task can be constructed with: a catch_all matcher, and upload
\* options with a path template, without one, or for collection c1 only
UploadTaskPayloads ==
    {PayloadOf(DictOfPresent(<<"upload_options", "collection_matchers", "collection_options">>,
                             <<uo,
                               List(<<Dict(<<"type", "collection_name">>,
                                           <<Str("catch_all"), Str("c1")>>)>>),
                               co>>),
               <<>>) :
         uo \in {Absent, Dict(<<"path_template">>, <<Str("s3://bucket/${id}/")>>),
                 Dict(<<"headers">>, <<Dict(<<"h">>, <<Num(1)>>)>>), EmptyDict},
         co \in {Absent,
                 Dict(<<"c1">>, <<Dict(<<"upload_options">>,
                                       <<Dict(<<"path_template">>, <<Str("s3://${collection}/items")>>)>>)>>)}}

UploadKwargs ==
    {[DefaultKwargs EXCEPT !.upload = up, !.skip_upload = skip] :
         up \in BOOLEAN, skip \in BOOLEAN}

\* output holds the item as it was given, collection_config what the storage
\* holds at the item's URL, items what the task has written there so far
InitUpload ==
    /\ SharedUnused
    /\ payload \in {p \in UploadTaskPayloads : ~Raised(validate(p))}
    /\ task_name = "t1"
    /\ collection_config \in StoredItems
    /\ item \in UploadItems
    /\ collection_name = ""
    /\ output = <<item>>
    /\ items = <<>>
    /\ pc = "constructed"
    /\ ret = NoResult
    /\ kwargs \in UploadKwargs
    /\ task = Task__init__(kwargs)
    /\ workdir_exists = TRUE
    /\ calls = NoCalls

\* item = task.upload_item_assets_to_s3(item, assets)
UploadItemAssets ==
    /\ pc = "constructed"
    /\ \E assets \in {[all |-> TRUE, keys |-> {}], [all |-> FALSE, keys |-> {"a"}],
                       [all |-> FALSE, keys |-> {}]} :
           \E done \in {upload_item_assets_to_s3(task, payload, item, assets)} :
               /\ ret' = done.outcome
               /\ item' = IF Raised(done.outcome) THEN item ELSE done.outcome.val
               /\ calls' = [calls EXCEPT !.storage = @ + done.storage]
               /\ pc' = IF Raised(done.outcome) THEN "failed" ELSE "assets_uploaded"
    /\ UNCHANGED <<sharedvars, payload, task_name, collection_config, collection_name, output,
                   items, kwargs, task, workdir_exists>>

\* item = task.upload_item_to_s3(item), the first time or again
UploadItem ==
    /\ pc \in {"constructed", "assets_uploaded", "item_uploaded"}
    /\ Len(items) < MaxUploads
    /\ \E done \in {upload_item_to_s3(task, payload, item, collection_config,
                                      Now(Len(items) + 1))} :
           /\ ret' = done.outcome
           /\ item' = done.doc
           /\ calls' = [calls EXCEPT !.storage = @ + done.storage]
           /\ collection_config' = IF Raised(done.outcome) \/ ~task._upload
                                   THEN collection_config ELSE done.outcome.val
           /\ items' = IF Raised(done.outcome) \/ ~task._upload
                       THEN items ELSE Append(items, done.outcome.val)
           /\ pc' = IF Raised(done.outcome) THEN "failed" ELSE "item_uploaded"
    /\ UNCHANGED <<sharedvars, payload, task_name, collection_name, output, kwargs, task,
                   workdir_exists>>

NextUpload == UploadItemAssets \/ UploadItem

SpecUpload == InitUpload /\ [][NextUpload]_vars

\* Upload is disabled by the caller
UploadDisabled == ~kwargs.upload \/ kwargs.skip_upload

(* C20: when upload is disabled (upload=False, or the deprecated
   skip_upload=True even with upload=True), upload_item_to_s3 and
   upload_item_assets_to_s3 make no storage call and return the item with its
   assets, links and created/updated timestamps unchanged. *)
NoUploadWhenDisabled ==
    (UploadDisabled /\ pc # "constructed") =>
        /\ calls.storage = 0
        /\ pc \in {"assets_uploaded", "item_uploaded"}
        /\ ret = Ok(output[1])
        /\ item = output[1]
        /\ DictGet(item, "assets", None) = DictGet(output[1], "assets", None)
        /\ DictGet(item, "links", None) = DictGet(output[1], "links", None)
        /\ DictGet(item, "properties", None) = DictGet(output[1], "properties", None)

\* C20 witness: with skip_upload=True and upload=True, both calls were made
\* on an item with a local asset, for a payload without upload options for
\* the item's collection
NoUploadWhenDisabledWitness ==
    /\ pc = "item_uploaded"
    /\ kwargs.skip_upload /\ kwargs.upload
    /\ HasKey(DictGet(item, "assets", EmptyDict), "a")
    /\ Raised(get_collection_upload_options(payload, CollectionId(item)))
    /\ calls.storage = 0
    /\ ret = Ok(output[1])

----------------------------------------------------------------------------
(* The links and timestamps of an uploaded item *)

\* A step in which upload_item_to_s3 wrote the item to its URL
Uploaded == Len(items') = Len(items) + 1

LinksOf(doc) == DictGet(doc, "links", EmptyList).v

RelOf(link) == DictGet(link, "rel", None).v[1]

LinksWithRel(doc, rel) == {i \in 1..Len(LinksOf(doc)) : RelOf(LinksOf(doc)[i]) = rel}

IsOtherRel(link) == RelOf(link) \notin {"self", "canonical"}

OtherLinks(doc) == SelectSeq(LinksOf(doc), IsOtherRel)

\* The URL of the item as the template and the item's id give it
GeneratedUrl(doc) ==
    IF CollectionId(doc) = "c1" /\ HasKey(RawField("collection_options", EmptyDict), "c1")
    THEN Str("s3://c1/items/i1.json")
    ELSE Str("s3://bucket/i1/i1.json")

(* C21: after every successful upload_item_to_s3, repeated uploads of the
   same item included, the item has exactly one link with rel self and
   exactly one with rel canonical, both targeting the URL just generated from
   the path template and the item id, and every link with another rel is
   preserved. *)
OneSelfOneCanonical ==
    [][Uploaded =>
         /\ Cardinality(LinksWithRel(item', "self")) = 1
         /\ Cardinality(LinksWithRel(item', "canonical")) = 1
         /\ \A i \in LinksWithRel(item', "self") \cup LinksWithRel(item', "canonical") :
                DictGet(LinksOf(item')[i], "target", None) = GeneratedUrl(item)
         /\ OtherLinks(item') = OtherLinks(item)]_vars

\* C21 witness: an item that came with a self link to another URL and a
\* derived_from link has been uploaded as often as the bound allows
OneSelfOneCanonicalWitness ==
    /\ pc = "item_uploaded"
    /\ Len(items) = MaxUploads
    /\ LinksWithRel(output[1], "self") # {}
    /\ OtherLinks(output[1]) # <<>>
    /\ OtherLinks(item) = OtherLinks(output[1])
    /\ Cardinality(LinksWithRel(item, "self")) = 1

CreatedOf(doc) == DictGet(DictGet(doc, "properties", EmptyDict), "created", None)

UpdatedOf(doc) == DictGet(DictGet(doc, "properties", EmptyDict), "updated", None)

\* The created value written to the URL is the same in every upload
CreatedNeverChanges == \A i \in 1..Len(items) : CreatedOf(items[i]) = CreatedOf(items[1])

(* C22 as claimed: on a successful upload_item_to_s3 updated is set to the
   current time and created is taken from the item already stored at the
   target URL when one exists, otherwise from the item's own created
   property, otherwise set to the current time; across any sequence of
   uploads to the same URL the created value stored there never changes
   after the first upload. *)
CreatedFromStoredThenOwnThenNow ==
    /\ [][Uploaded =>
            /\ UpdatedOf(item') = Now(Len(items) + 1)
            /\ CreatedOf(item') =
                   IF collection_config # None /\ CreatedOf(collection_config) # None
                   THEN CreatedOf(collection_config)
                   ELSE IF CreatedOf(item) # None THEN CreatedOf(item)
                   ELSE Now(Len(items) + 1)]_vars
    /\ []CreatedNeverChanges

(* C22 as amended: on a successful upload_item_to_s3 updated is set to the
   current time; created is taken from the item already stored at the target
   URL when one exists and has a created property, is set to the current
   time when a stored item exists without one (the item's own created is
   then not used), and without a stored item is the item's own created
   property or else the current time; across any sequence of uploads to the
   same URL the created value stored there never changes after the first
   upload. *)
CreatedFromStoredElseOwnElseNow ==
    /\ [][Uploaded =>
            /\ UpdatedOf(item') = Now(Len(items) + 1)
            /\ CreatedOf(item') =
                   IF collection_config # None
                   THEN IF CreatedOf(collection_config) # None
                        THEN CreatedOf(collection_config)
                        ELSE Now(Len(items) + 1)
                   ELSE IF CreatedOf(item) # None THEN CreatedOf(item)
                   ELSE Now(Len(items) + 1)]_vars
    /\ []CreatedNeverChanges

\* C22 witness: an item with its own created value was uploaded three times
\* to a URL that held an item with another created value
CreatedFromStoredWitness ==
    /\ Len(items) = MaxUploads
    /\ CreatedOf(output[1]) = Str("t0")
    /\ CreatedOf(items[1]) = Str("t00")
    /\ CreatedOf(item) = Str("t00")
    /\ UpdatedOf(item) = Now(MaxUploads)
    /\ UpdatedOf(items[1]) = Now(1)

\* What the payload resolves as upload options for the item's collection
ResolvedOptions == get_collection_upload_options(payload, CollectionId(item))

\* Nothing is resolved: no upload options at all, or only empty mappings
NothingResolved == Raised(ResolvedOptions)

\* Upload options are resolved and have no path_template
TemplateMissing ==
    /\ ~Raised(ResolvedOptions)
    /\ ~HasKey(ResolvedOptions.val, "path_template")

MissingPathTemplate ==
    Raise("ValueError", "Missing required 'path_template' in upload_options for collection",
          CollectionId(item))

\* The call changed neither the item nor what is stored, and made no storage call
NothingTouched ==
    /\ item' = item
    /\ calls'.storage = calls.storage
    /\ collection_config' = collection_config
    /\ items' = items

(* C23 as claimed: with upload enabled, upload_item_to_s3 on an item whose
   resolved upload options have no path_template, an empty upload_options
   mapping included, fails with the missing-'path_template' error, before any
   timestamp or link of the item is changed and before any storage read or
   write. *)
MissingTemplateFailsFirst ==
    [][(task._upload /\ (TemplateMissing \/ NothingResolved) /\ UploadItem) =>
           /\ ret' = MissingPathTemplate
           /\ pc' = "failed"
           /\ NothingTouched]_vars

(* C23 as amended: with upload enabled, upload_item_to_s3 on an item whose
   resolved upload options are not empty and have no path_template fails with
   the missing-'path_template' error; when nothing is resolved for the item's
   collection (no upload options, or an empty upload_options mapping) it
   fails with the ValueError 'No upload options found for collection' of
   get_collection_upload_options; in both cases it fails before any
   timestamp or link of the item is changed and before any storage read or
   write. *)
MissingTemplateOrOptionsFailsFirst ==
    [][(task._upload /\ (TemplateMissing \/ NothingResolved) /\ UploadItem) =>
           /\ ret' = IF TemplateMissing THEN MissingPathTemplate
                     ELSE Raise("ValueError", "No upload options found for collection",
                                CollectionId(item))
           /\ pc' = "failed"
           /\ NothingTouched]_vars

\* C23 witness: the upload of an item whose assets were uploaded before has
\* failed for upload options that hold headers only
MissingTemplateWitness ==
    /\ pc = "failed"
    /\ task._upload
    /\ ret = MissingPathTemplate
    /\ HasKey(ResolvedOptions.val, "headers")
    /\ calls.storage > 0
    /\ CreatedOf(item) = None
    /\ items = <<>>

\* The upload has failed with an empty upload_options mapping
EmptyOptionsWitness ==
    /\ pc = "failed"
    /\ task._upload
    /\ RawField("upload_options", None) = EmptyDict
    /\ ret = Raise("ValueError", "No upload options found for collection", CollectionId(item))

----------------------------------------------------------------------------
(* Loading a payload: Payload.from_href, and the first lines of Task.handler
   followed by the rest of the invocation *)

\* The definition of the stored payloads, legal for Payload.validate
LoadDefinition ==
    Dict(<<"tasks", "upload_options", "collection_matchers">>,
         <<Dict(<<"t1">>, <<EmptyDict>>),
           Dict(<<"path_template">>, <<Str("s3://bucket/${id}")>>),
           List(<<Dict(<<"type", "collection_name">>, <<Str("catch_all"), Str("c1")>>)>>)>>)

\* The hrefs of the model are absolute, which make_absolute_href returns as
\* they are; nothing is stored at C
LoadHrefs == {"A", "B", "C"}

StoredHrefs == {"A", "B"}

\* Documents found at an href or given to handler: a full payload, a full
\* payload that also names an href, bare pointers, and pointers that carry a
\* process definition but no features
LoadDocs ==
    {Dict(<<"process", "features">>, <<LoadDefinition, List(<<Dict(<<"id">>, <<Str("i1")>>)>>)>>),
     Dict(<<"href", "process", "features">>,
          <<Str("B"), LoadDefinition, List(<<Dict(<<"id">>, <<Str("i1")>>)>>)>>),
     Dict(<<"href", "process">>, <<Str("B"), LoadDefinition>>),
     Dict(<<"url", "process", "features">>, <<Str("B"), LoadDefinition, EmptyList>>)}
      \cup {Dict(<<"href">>, <<Str(h)>>) : h \in LoadHrefs}

\* Payload.model_validate_json: process is a mapping, features a list, href
\* a string or None; other fields are ignored
model_validate_json(doc) ==
    IF ~IsDict(DictGet(doc, "process", EmptyDict))
         \/ ~IsList(DictGet(doc, "features", EmptyList))
         \/ DictGet(doc, "href", None).t \notin {"none", "str"}
    THEN Raise("ValidationError", "", "")
    ELSE Ok(doc)

\* Payload.from_href: the outcome and the number of reads
RECURSIVE from_href(_, _, _)
from_href(store, href, allow_indirections) ==
    IF href \notin DOMAIN store
    THEN [outcome |-> Raise("FileNotFoundError", "", href), reads |-> 1]
    ELSE LET parsed == model_validate_json(store[href])
         IN  IF Raised(parsed) THEN [outcome |-> parsed, reads |-> 1]
             ELSE IF Truthy(DictGet(parsed.val, "href", None))
                       /\ ~Truthy(DictGet(parsed.val, "features", EmptyList))
             THEN IF allow_indirections
                  THEN LET next == from_href(store, DictGet(parsed.val, "href", None).v[1],
                                             FALSE)
                       IN  [outcome |-> next.outcome, reads |-> next.reads + 1]
                  ELSE [outcome |-> Raise("ValueError",
                                          "Multiple indirections are not supported", ""),
                        reads |-> 1]
             ELSE [outcome |-> Ok(DictSet(parsed.val, "self_href", Str(href))), reads |-> 1]

\* item is the href given to from_href, or the document handler is called
\* with; collection_config is what is stored
InitLoad ==
    /\ SharedUnused
    /\ collection_config \in [StoredHrefs -> LoadDocs]
    /\ \/ item \in {Str(h) : h \in LoadHrefs} /\ payload = None /\ pc = "href_given"
       \/ item \in LoadDocs /\ payload = item /\ pc = "called"
    /\ output = <<>>
    /\ task_name = "t1"
    /\ collection_name = ""
    /\ items = <<>>
    /\ ret = NoResult
    /\ kwargs = DefaultKwargs
    /\ task = NoTask
    /\ workdir_exists = FALSE
    /\ calls = NoCalls

\* payload = Payload.from_href(href)
FromHref ==
    /\ pc = "href_given"
    /\ \E done \in {from_href(collection_config, item.v[1], TRUE)} :
           /\ ret' = done.outcome
           /\ calls' = [calls EXCEPT !.storage = @ + done.reads]
           /\ payload' = IF Raised(done.outcome) THEN payload ELSE done.outcome.val
           /\ pc' = IF Raised(done.outcome) THEN "load_failed" ELSE "loaded"
    /\ UNCHANGED <<sharedvars, task_name, collection_config, item, collection_name, output, items,
                   kwargs, task, workdir_exists>>

\* Task.handler: if "href" in payload or "url" in payload, read the payload
\* from there
HandlerRead ==
    /\ pc = "called"
    /\ IF HasKey(payload, "href") \/ HasKey(payload, "url")
       THEN LET href == DictGet(payload, "href", DictGet(payload, "url", None)).v[1]
            IN  /\ calls' = [calls EXCEPT !.storage = @ + 1]
                /\ IF href \in DOMAIN collection_config
                   THEN payload' = collection_config[href] /\ pc' = "created" /\ ret' = ret
                   ELSE /\ payload' = payload
                        /\ pc' = "raising"
                        /\ ret' = Raise("FileNotFoundError", "", href)
       ELSE UNCHANGED <<payload, calls, ret>> /\ pc' = "created"
    /\ UNCHANGED <<sharedvars, task_name, collection_config, item, collection_name, output, items,
                   kwargs, task, workdir_exists>>

NextLoad ==
    \/ FromHref
    \/ HandlerRead
    \/ Construct
    \/ Process
    \/ PostProcessItem
    \/ WriteBack
    \/ AssignCollections
    \/ Return
    \/ Finally

SpecLoad == InitLoad /\ [][NextLoad]_vars

\* A pointer: an href and no features
IsPointer(doc) ==
    /\ IsDict(doc)
    /\ Truthy(DictGet(doc, "href", None))
    /\ ~Truthy(DictGet(doc, "features", EmptyList))

TargetOf(doc) == DictGet(doc, "href", None).v[1]

\* What is stored at href h is a pointer
PointerAt(h) == h \in StoredHrefs /\ IsPointer(collection_config[h])

\* from_href was given an href, handler a document
GivenHref == item.t = "str"

\* handler has gone on to construct or run the task
Executing ==
    pc \in {"constructed", "post_process", "written", "assigned", "returning", "done"}

\* Payload.from_href follows one pointer, rejects a second one and reads at
\* most twice
FromHrefOneLevel ==
    (GivenHref /\ pc # "href_given") =>
        /\ calls.storage <= 2
        /\ (PointerAt(item.v[1]) /\ PointerAt(TargetOf(collection_config[item.v[1]]))) =>
               /\ ret = Raise("ValueError", "Multiple indirections are not supported", "")
               /\ calls.storage = 2
        /\ (PointerAt(item.v[1]) /\ TargetOf(collection_config[item.v[1]]) \in StoredHrefs
              /\ ~PointerAt(TargetOf(collection_config[item.v[1]]))) =>
               /\ ret = Ok(payload)
               /\ payload = DictSet(collection_config[TargetOf(collection_config[item.v[1]])],
                                    "self_href",
                                    Str(TargetOf(collection_config[item.v[1]])))
               /\ calls.storage = 2

FromHrefOneLevelWitness ==
    /\ GivenHref
    /\ pc = "load_failed"
    /\ PointerAt(item.v[1])
    /\ PointerAt(TargetOf(collection_config[item.v[1]]))
    /\ ret = Raise("ValueError", "Multiple indirections are not supported", "")

(* C24: loading an indirect payload dereferences exactly one level: a
   pointer payload (href set, no features) is followed once, a payload
   reached through that indirection which is itself a pointer is rejected
   with an error instead of being followed or executed, so loading always
   terminates after at most two reads. *)
OneLevelOfIndirection ==
    /\ calls.storage <= 2
    /\ FromHrefOneLevel
    /\ (~GivenHref /\ IsPointer(item) /\ PointerAt(TargetOf(item))) =>
           /\ ~Executing
           /\ calls.process = 0
           /\ pc = "failed" => Raised(ret)

\* handler, called with a pointer to A, has run the task on the pointer
\* stored at A and returned its document
NestedPointerExecuted ==
    /\ ~GivenHref
    /\ IsPointer(item)
    /\ PointerAt(TargetOf(item))
    /\ pc = "done"
    /\ calls.process = 1
    /\ calls.storage = 1
    /\ ~Raised(ret)

----------------------------------------------------------------------------
(* The task registry: register_task, unregister_task, get_task, get_tasks
   and register_task's context manager, called by several threads *)

RegistryNames == {"a", "b"}

TaskClasses == {"X", "Y"}

\* Registry.__init__: no task is registered, the lock is free
EmptyRegistry == [n \in RegistryNames |-> "none"]

\* A thread between two calls, outside any with block; budget is the number
\* of calls it will make, the ends of with blocks not counted
IdleThread ==
    [pc |-> "idle", op |-> "", name |-> "", cls |-> "", block |-> "", done |-> <<>>,
     budget |-> 0]

\* The calls a thread makes; "with" is register_task used as a context manager
\* and "exit" the end of its block
RegistryOps == {"register_task", "with", "unregister_task", "get_task", "get_tasks"}

\* Mutant of lock_acquire: the lock is taken whoever holds it
lock_acquire_unguarded(l) == TRUE

\* with self.lock: a thread enters when the lock is free
lock_acquire(l) == l = 0

\* The condition under which the method raises ValueError
RegistryRaises(op, name, reg) ==
    CASE op \in {"register_task", "with"}    -> reg[name] # "none"
      [] op \in {"unregister_task", "exit"}  -> reg[name] = "none"
      [] op = "get_task"                     -> reg[name] = "none"
      [] OTHER                               -> FALSE

\* Mutant of RegistryContextManager__exit__: the ValueError is not caught
RegistryContextManager__exit__uncaught(raw) == raw

\* RegistryContextManager.__exit__: what unregister_task raises is caught
RegistryContextManager__exit__(raw) == IF raw = "ValueError" THEN "ok" ELSE raw

\* What the call gives its caller: raw is what the Registry method returned
\* or raised
CallResult(op, raw) == IF op = "exit" THEN RegistryContextManager__exit__(raw) ELSE raw

\* A call that is over, as the thread's history keeps it
Completed(th, raw) ==
    [op |-> th.op, name |-> th.name, cls |-> th.cls, raw |-> raw,
     res |-> CallResult(th.op, raw)]

\* The calls the thread has made, the ends of with blocks not counted
CallsMade(th) == Cardinality({i \in 1..Len(th.done) : th.done[i].op # "exit"})

InitRegistryOf(n, ops) ==
    /\ payload = None
    /\ task_name = ""
    /\ collection_config = None
    /\ item = None
    /\ collection_name = ""
    /\ output = <<>>
    /\ items = <<>>
    /\ pc = ""
    /\ ret = NoResult
    /\ TaskUnused
    /\ registry = EmptyRegistry
    /\ lock = 0
    /\ threads = [t \in 1..n |-> [IdleThread EXCEPT !.budget = ops]]
    /\ sem = 0
    /\ downloads = <<>>

InitRegistry == InitRegistryOf(MaxThreads, MaxThreadOps)

\* One thread only
InitContext == InitRegistryOf(1, MaxOps)

RegistryFrame ==
    UNCHANGED <<payload, task_name, collection_config, item, collection_name, output,
                items, pc, ret, taskvars, sem, downloads>>

\* The thread calls one of the functions of the module
CallRegistry(t) ==
    /\ threads[t].pc = "idle"
    /\ CallsMade(threads[t]) < threads[t].budget
    /\ \E op \in RegistryOps, name \in RegistryNames, cls \in TaskClasses :
           /\ op = "with" => threads[t].block = ""
           /\ op \in {"unregister_task", "get_task"} => cls = "X"
           /\ op = "get_tasks" => (cls = "X" /\ name = "a")
           /\ threads' = [threads EXCEPT ![t].pc = "acquire", ![t].op = op,
                                          ![t].name = IF op = "get_tasks" THEN "" ELSE name,
                                          ![t].cls = IF op \in {"register_task", "with"}
                                                     THEN cls ELSE ""]
    /\ UNCHANGED <<registry, lock>>
    /\ RegistryFrame

\* The thread leaves its with block: __exit__ calls unregister_task(self.name)
ExitBlock(t) ==
    /\ threads[t].pc = "idle"
    /\ threads[t].block # ""
    /\ threads' = [threads EXCEPT ![t].pc = "acquire", ![t].op = "exit",
                                   ![t].name = threads[t].block, ![t].cls = ""]
    /\ UNCHANGED <<registry, lock>>
    /\ RegistryFrame

\* with self.lock: (entry)
Acquire(t) ==
    /\ threads[t].pc = "acquire"
    /\ lock_acquire(lock)
    /\ lock' = t
    /\ threads' = [threads EXCEPT ![t].pc = "locked"]
    /\ UNCHANGED registry
    /\ RegistryFrame

\* The test of the method, and what get_task and get_tasks return
Check(t) ==
    /\ threads[t].pc = "locked"
    /\ threads' =
          [threads EXCEPT
             ![t].pc = IF RegistryRaises(threads[t].op, threads[t].name, registry)
                          \/ threads[t].op \in {"get_task", "get_tasks"}
                       THEN "release" ELSE "write",
             ![t].done =
                 IF RegistryRaises(threads[t].op, threads[t].name, registry)
                 THEN Append(@, Completed(threads[t], "ValueError"))
                 ELSE IF threads[t].op = "get_task"
                 THEN Append(@, Completed(threads[t], registry[threads[t].name]))
                 ELSE IF threads[t].op = "get_tasks"
                 THEN Append(@, Completed(threads[t], registry))
                 ELSE @]
    /\ UNCHANGED <<registry, lock>>
    /\ RegistryFrame

\* self.tasks[name] = task_class, or del self.tasks[name]
Write(t) ==
    /\ threads[t].pc = "write"
    /\ registry' = [registry EXCEPT ![threads[t].name] =
                       IF threads[t].op \in {"register_task", "with"}
                       THEN threads[t].cls ELSE "none"]
    /\ threads' = [threads EXCEPT ![t].pc = "release",
                                   ![t].done = Append(@, Completed(threads[t], "ok"))]
    /\ UNCHANGED lock
    /\ RegistryFrame

\* with self.lock: (exit), and the return to the caller, into or out of the
\* with block
Release(t) ==
    /\ threads[t].pc = "release"
    /\ lock' = IF lock = t THEN 0 ELSE lock
    /\ threads' =
          [threads EXCEPT
             ![t].pc = "idle",
             ![t].block =
                 IF threads[t].op = "with" /\ threads[t].done[Len(threads[t].done)].res = "ok"
                 THEN threads[t].name
                 ELSE IF threads[t].op = "exit" THEN "" ELSE @]
    /\ UNCHANGED registry
    /\ RegistryFrame

NextRegistry ==
    \E t \in DOMAIN threads :
        \/ CallRegistry(t)
        \/ ExitBlock(t)
        \/ Acquire(t)
        \/ Check(t)
        \/ Write(t)
        \/ Release(t)

SpecRegistry == InitRegistry /\ [][NextRegistry]_vars

SpecContext == InitContext /\ [][NextRegistry]_vars

\* The calls thread 1 has completed, in order
Done1 == threads[1].done

\* Between the calls at w and i the thread has not changed what is
\* registered under name n
Untouched(n, w, i) ==
    \A j \in (w + 1)..(i - 1) :
        ~(Done1[j].op \in {"register_task", "with", "unregister_task", "exit"}
            /\ Done1[j].name = n /\ Done1[j].raw = "ok")

(* C25: a task registered with register_task used as a context manager is
   retrievable with get_task inside the block, and after the block exits
   get_task raises ValueError for that name; leaving the block never raises,
   even when the task was already unregistered inside the block. *)
ContextManagerScope ==
    \A i \in 1..Len(Done1) :
        /\ Done1[i].op = "exit" => Done1[i].res = "ok"
        /\ Done1[i].op = "get_task" =>
              \A w \in 1..(i - 1) :
                 /\ (Done1[w].op = "with" /\ Done1[w].res = "ok"
                       /\ Done1[w].name = Done1[i].name /\ Untouched(Done1[i].name, w, i))
                        => Done1[i].res = Done1[w].cls
                 /\ (Done1[w].op = "exit" /\ Done1[w].name = Done1[i].name
                       /\ Untouched(Done1[i].name, w, i))
                        => Done1[i].res = "ValueError"

\* C25 witness: the task was unregistered inside the block, the block was
\* left and get_task then raised
ContextManagerScopeWitness ==
    /\ Len(Done1) = 4
    /\ Done1[1].op = "with" /\ Done1[1].name = "a" /\ Done1[1].cls = "Y" /\ Done1[1].res = "ok"
    /\ Done1[2].op = "unregister_task" /\ Done1[2].name = "a" /\ Done1[2].res = "ok"
    /\ Done1[3].op = "exit" /\ Done1[3].raw = "ValueError" /\ Done1[3].res = "ok"
    /\ Done1[4].op = "get_task" /\ Done1[4].name = "a" /\ Done1[4].res = "ValueError"
    /\ threads[1].pc = "idle"

\* The task was retrieved inside the block, and no more after it
RetrievedInsideWitness ==
    /\ Len(Done1) = 4
    /\ Done1[1].op = "with" /\ Done1[1].name = "a" /\ Done1[1].cls = "Y" /\ Done1[1].res = "ok"
    /\ Done1[2].op = "get_task" /\ Done1[2].name = "a" /\ Done1[2].res = "Y"
    /\ Done1[3].op = "exit" /\ Done1[3].raw = "ok"
    /\ Done1[4].op = "get_task" /\ Done1[4].name = "a" /\ Done1[4].res = "ValueError"

\* The calls of thread th among ops that succeeded for name n
CountIn(th, ops, n) ==
    Cardinality({i \in 1..Len(th.done) :
                    th.done[i].op \in ops /\ th.done[i].name = n /\ th.done[i].raw = "ok"})

RECURSIVE TotalCount(_, _, _)
TotalCount(k, ops, n) ==
    IF k = 0 THEN 0 ELSE CountIn(threads[k], ops, n) + TotalCount(k - 1, ops, n)

\* A thread is reading or changing the registry
InRegistry(t) == threads[t].pc \in {"locked", "write"}

\* In this step a call ended with ValueError
CallFailed ==
    \E t \in DOMAIN threads :
        /\ Len(threads'[t].done) = Len(threads[t].done) + 1
        /\ threads'[t].done[Len(threads'[t].done)].op # "get_tasks"
        /\ threads'[t].done[Len(threads'[t].done)].raw = "ValueError"

(* C28: under any interleaving of register_task, unregister_task, get_task
   and get_tasks calls from several threads, the registry is only read or
   changed while the lock is held: when several threads register the same
   unregistered name concurrently exactly one succeeds and every other
   raises ValueError, an existing registration is never silently
   overwritten, and a failed register or unregister leaves the registry
   unchanged. *)
RegistryUnderLock ==
    /\ [](\A t \in DOMAIN threads : InRegistry(t) => lock = t)
    /\ [](\A n \in RegistryNames :
             TotalCount(Cardinality(DOMAIN threads), {"register_task", "with"}, n)
               - TotalCount(Cardinality(DOMAIN threads), {"unregister_task", "exit"}, n)
                 = IF registry[n] = "none" THEN 0 ELSE 1)
    /\ [][\A n \in RegistryNames :
             registry'[n] # registry[n] => (registry[n] = "none" \/ registry'[n] = "none")]_vars
    /\ [][CallFailed => registry' = registry]_vars

\* C28 witness: one thread is writing its registration of a while the other,
\* which registers a too, waits for the lock; and two concurrent
\* registrations of b have ended, one with ValueError
RegistryUnderLockWitness ==
    /\ threads[1].pc = "write" /\ threads[1].op = "register_task" /\ threads[1].name = "a"
    /\ threads[2].pc = "acquire" /\ threads[2].op = "register_task" /\ threads[2].name = "a"
    /\ lock = 1
    /\ Len(threads[1].done) = 1 /\ Len(threads[2].done) = 1
    /\ threads[1].done[1].op = "register_task" /\ threads[1].done[1].name = "b"
    /\ threads[2].done[1].op = "register_task" /\ threads[2].done[1].name = "b"
    /\ threads[1].done[1].raw = "ValueError"
    /\ threads[2].done[1].raw = "ok"

----------------------------------------------------------------------------
(* The records handler writes to features *)

\* Record doc with its stac_extensions, if a list, in ascending order
SortedExtensions(doc) ==
    IF HasKey(doc, "stac_extensions") /\ IsList(Extensions(doc))
    THEN DictSet(doc, "stac_extensions", List(SortList(Extensions(doc).v)))
    ELSE doc

\* What the post-process hook returns for record i of process' output
HookReturns(i) == post_process_item_returns(kwargs.cls, output[i])

(* C27: the features of the document returned by handler are exactly, in
   order, the records returned by the post-process hook for each record that
   process produced: the count equals the number of records process returned,
   and when the hook returns a record different from the one it was given,
   the returned record is the one written to features. *)
FeaturesAreHookResults ==
    pc = "done" =>
        /\ Len(ReturnedFeatures) = Len(output)
        /\ \A i \in 1..Len(output) :
               OnlyCollectionChanged(SortedExtensions(HookReturns(i)), ReturnedFeatures[i])

\* The features of the returned document are, in order, the records process
\* produced as the hook left them, whatever the hook returned
FeaturesAreRecordsInPlace ==
    pc = "done" =>
        /\ Len(ReturnedFeatures) = Len(output)
        /\ \A i \in 1..Len(output) :
               OnlyCollectionChanged(SortedExtensions(Hooked(i).val), ReturnedFeatures[i])

\* handler has returned the records of a task whose hook returns new records
HookResultDropped ==
    /\ pc = "done"
    /\ kwargs.cls = "ReplaceTask"
    /\ Len(output) = MaxItems
    /\ \A i \in 1..Len(output) :
           /\ HasKey(HookReturns(i), "replaced")
           /\ ~HasKey(ReturnedFeatures[i], "replaced")

----------------------------------------------------------------------------
(* The order of the steps of handler *)

\* How far the invocation is
HandlerRank(at) ==
    CASE at = "created"      -> 0
      [] at = "constructed"  -> 1
      [] at = "post_process" -> 2
      [] at = "written"      -> 3
      [] at = "assigned"     -> 4
      [] at \in {"returning", "raising"} -> 5
      [] OTHER               -> 6

(* C26: a handler invocation is sequential with no re-entry: payload
   validation and the validation hook complete before process is invoked
   (once, with the resolved parameters); each output record is
   post-processed in order (hook, then extension sort); all post-processing
   completes before the records are written back to features; the write-back
   happens before any collection is assigned; and the document is returned
   only after the last record has been assigned. *)
HandlerSequential ==
    /\ [][HandlerRank(pc') >= HandlerRank(pc)]_vars
    /\ [][calls'.process # calls.process =>
            /\ pc = "constructed"
            /\ calls.process = 0 /\ calls'.process = 1
            /\ ~Raised(ConstructionOutcome(payload, kwargs))
            /\ ~Raised(parameters(payload, task_name))]_vars
    /\ [][items' # items =>
            /\ pc = "post_process" /\ calls.process = 1
            /\ Len(items) < Len(output)
            /\ items' = Append(items, SortedExtensions(Hooked(Len(items) + 1).val))]_vars
    /\ [][pc' = "written" =>
            /\ pc = "post_process"
            /\ Len(items) = Len(output)
            /\ payload' = DictSet(payload, "features", List(items))]_vars
    /\ [][(payload' # payload /\ pc' # "written") =>
            /\ pc = "written"
            /\ Features = items]_vars
    /\ [][(ret' # ret /\ ~Raised(ret')) =>
            /\ pc = "assigned"
            /\ ret' = Ok(payload)
            /\ Len(Features) = Len(output)
            /\ \A i \in 1..Len(Features) :
                   /\ OnlyCollectionChanged(items[i], Features[i])
                   /\ Resolved(items[i]) # None =>
                          DictGet(Features[i], "collection", None) = Resolved(items[i])]_vars

\* C26 witness: handler has returned two records that process produced from
\* one, post-processed by the hook of PostProcessTask and assigned to
\* collections
HandlerSequentialWitness ==
    /\ pc = "done"
    /\ calls.process = 1
    /\ kwargs.cls = "PostProcessTask"
    /\ Len(output) = 2 /\ Len(items) = 2 /\ Len(ReturnedFeatures) = 2
    /\ \E i \in 1..2 : DictGet(ReturnedFeatures[i], "collection", None)
                            # DictGet(output[i], "collection", None)

----------------------------------------------------------------------------
(* Validation switched off *)

\* handler is called on a payload of the right or of a wrong shape
InitAnyShape ==
    /\ SharedUnused
    /\ payload \in HandlerPayloads \cup MalformedPayloads
    /\ task_name = "t1"
    /\ collection_config = None
    /\ item = None
    /\ collection_name = ""
    /\ output = <<>>
    /\ items = <<>>
    /\ pc = "created"
    /\ ret = NoResult
    /\ kwargs \in HandlerKwargs
    /\ task = NoTask
    /\ workdir_exists \in (IF kwargs.workdir = "given" THEN BOOLEAN ELSE {FALSE})
    /\ calls = NoCalls

SpecAnyShape == InitAnyShape /\ [][Next]_vars

\* The caller has disabled validation
ValidationDisabled == ~kwargs.validate \/ kwargs.skip_validation

\* The payload has both collection configurations
BothConfigured ==
    /\ ~Raised(collection_matchers(payload)) /\ ~Raised(collection_mapping(payload))
    /\ Truthy(collection_matchers(payload).val)
    /\ Truthy(collection_mapping(payload).val)

(* C30: disabling validation (validate=False or the deprecated
   skip_validation=True) suppresses only the task's own validate hook, which
   is then never called: Payload.validate() still runs on every Task
   construction, so a payload with a shape violation or with both collection
   configurations is rejected even when validation is disabled. *)
StructuralValidationAlways ==
    [][(pc = "created" /\ ValidationDisabled) =>
          IF Raised(validate(payload))
          THEN /\ ret' = validate(payload)
               /\ pc' = "raising"
               /\ task' = NoTask
               /\ calls'.process = 0
          ELSE /\ pc' = "constructed"
               /\ task'.constructed
               /\ ret' = ret]_vars

\* C30 witness: with validate=False the construction of a task whose hook
\* raises has failed for a payload whose process is no list
StructuralValidationWitness ==
    /\ pc = "failed"
    /\ ~kwargs.validate /\ ~kwargs.skip_validation
    /\ kwargs.cls = "FailValidateTask"
    /\ payload \in MalformedPayloads
    /\ DictGet(payload, "process", None) = Str("p")
    /\ ret = Raise("TypeError", "unable to parse 'process': must be type list", "")
    /\ task = NoTask

\* With skip_validation=True a payload with both collection configurations
\* was rejected
BothConfiguredRejectedWitness ==
    /\ pc = "failed"
    /\ kwargs.skip_validation
    /\ payload \in HandlerPayloads
    /\ BothConfigured
    /\ ret.exc = "ValueError"
    /\ task = NoTask

\* With validation disabled a task whose hook returns false was constructed
\* and has run
HookSuppressedWitness ==
    /\ pc = "done"
    /\ ValidationDisabled
    /\ kwargs.cls = "RejectTask"
    /\ calls.process = 1

----------------------------------------------------------------------------
(* Downloads: download_items_assets starts one download_item_assets per
   item, which starts one download_file per asset to fetch; all of them run
   on one event loop and share the semaphore sem *)

SIMULTANEOUS_DOWNLOADS == 3

DownloadItems == 1..MaxDownloadItems

\* The files: asset a of item i
DownloadFiles == DownloadItems \X (1..MaxAssets)

\* Mutant of Semaphore_locked: the semaphore never makes a caller wait
Semaphore_never_locked(value) == FALSE

\* asyncio.Semaphore.locked: no permit is left
Semaphore_locked(value) == value = 0

\* sem = asyncio.Semaphore(SIMULTANEOUS_DOWNLOADS); no coroutine has run
InitDownloads ==
    /\ payload = None
    /\ task_name = ""
    /\ collection_config = None
    /\ item = None
    /\ collection_name = ""
    /\ output = <<>>
    /\ items = <<>>
    /\ pc = ""
    /\ ret = NoResult
    /\ TaskUnused
    /\ registry = <<>>
    /\ lock = 0
    /\ threads = <<>>
    /\ sem = SIMULTANEOUS_DOWNLOADS
    /\ downloads = [items |-> [i \in DownloadItems |-> "created"],
                    files |-> [f \in DownloadFiles |-> "none"]]

DownloadsFrame ==
    UNCHANGED <<payload, task_name, collection_config, item, collection_name, output,
                items, pc, ret, taskvars, registry, lock, threads>>

\* download_item_assets up to its await: a download_file task is created for
\* every asset that is wanted and not on disk yet (or to be overwritten);
\* asyncio.wait raises ValueError when there is none
StartItem(i) ==
    /\ downloads.items[i] = "created"
    /\ \E fetch \in SUBSET (1..MaxAssets) :
           downloads' =
               [items |-> [downloads.items EXCEPT
                              ![i] = IF fetch = {} THEN "failed" ELSE "waiting"],
                files |-> [f \in DownloadFiles |->
                              IF f[1] = i /\ f[2] \in fetch THEN "created"
                              ELSE downloads.files[f]]]
    /\ UNCHANGED sem
    /\ DownloadsFrame

\* async with sem: (entry) the coroutine takes a permit, or waits for one
Enter(f) ==
    /\ downloads.files[f] \in {"created", "waiting"}
    /\ IF Semaphore_locked(sem)
       THEN /\ downloads.files[f] = "created"
            /\ downloads' = [downloads EXCEPT !.files[f] = "waiting"]
            /\ sem' = sem
       ELSE /\ downloads' = [downloads EXCEPT !.files[f] = "transferring"]
            /\ sem' = sem - 1
    /\ DownloadsFrame

\* await fs._get_file(src, dest) returns; async with sem: (exit)
Finish(f) ==
    /\ downloads.files[f] = "transferring"
    /\ downloads' = [downloads EXCEPT !.files[f] = "completed"]
    /\ sem' = sem + 1
    /\ DownloadsFrame

\* await fs._get_file(src, dest) raises; async with sem: (exit)
Fail(f) ==
    /\ downloads.files[f] = "transferring"
    /\ downloads' = [downloads EXCEPT !.files[f] = "failed"]
    /\ sem' = sem + 1
    /\ DownloadsFrame

\* await asyncio.wait(tasks) returns when every download of the item is
\* over; the item is saved
SaveItem(i) ==
    /\ downloads.items[i] = "waiting"
    /\ \A f \in DownloadFiles :
           f[1] = i => downloads.files[f] \in {"none", "completed", "failed"}
    /\ downloads' = [downloads EXCEPT !.items[i] = "saved"]
    /\ UNCHANGED sem
    /\ DownloadsFrame

NextDownloads ==
    \/ \E i \in DownloadItems : StartItem(i) \/ SaveItem(i)
    \/ \E f \in DownloadFiles : Enter(f) \/ Finish(f) \/ Fail(f)

SpecDownloads == InitDownloads /\ [][NextDownloads]_vars

\* The event loop runs every coroutine that can run, and every transfer ends
SpecDownloadsLive ==
    /\ SpecDownloads
    /\ \A f \in DownloadFiles : WF_vars(Enter(f)) /\ WF_vars(Finish(f) \/ Fail(f))

\* The files whose transfer is in progress
InProgress == {f \in DownloadFiles : downloads.files[f] = "transferring"}

(* C29: at every moment at most SIMULTANEOUS_DOWNLOADS (3) file downloads
   are in progress, counted across all assets of all items being downloaded
   concurrently by download_items_assets, and every download that acquires
   the semaphore releases it when the transfer finishes or fails, so a
   waiting download eventually proceeds. *)
DownloadsBounded ==
    /\ [](Cardinality(InProgress) <= SIMULTANEOUS_DOWNLOADS)
    /\ [](sem + Cardinality(InProgress) = SIMULTANEOUS_DOWNLOADS)
    /\ \A f \in DownloadFiles :
           (downloads.files[f] = "waiting") ~> (downloads.files[f] = "transferring")

\* C29 witness: three files of two items are being transferred, a fourth
\* waits, and one has failed before
DownloadsBoundedWitness ==
    /\ Cardinality(InProgress) = SIMULTANEOUS_DOWNLOADS
    /\ sem = 0
    /\ \E f, g \in InProgress : f[1] # g[1]
    /\ \E f \in DownloadFiles : downloads.files[f] = "waiting"
    /\ \E f \in DownloadFiles : downloads.files[f] = "failed"

====
